---- MODULE Spec2Model ----
(***************************************************************************)
(* Model of the bgc geometric kernel (src/src): the Tolerance record and   *)
(* its setters, the quadratic solver, the Vector/Point algebra, the        *)
(* Matrix3d frame transforms, Line and Arc.                                *)
(*                                                                         *)
(* Numbers.  The kernel computes in f64.  The model computes in the        *)
(* rationals: a number is a pair <<n, d>> in lowest terms with d > 0, and  *)
(* <<0, 0>> stands for a non-finite f64 (NaN or an infinity), which every  *)
(* operation propagates and every comparison answers FALSE for, as IEEE    *)
(* comparisons with NaN do.  +, -, * and / are exact.  A square root is    *)
(* exact when the radicand is the square of a rational and is otherwise    *)
(* rounded up to the next multiple of 1/SqrtDen (f64 rounds it to an ulp). *)
(*                                                                         *)
(* A local variable of the code that is read more than once is the         *)
(* parameter of a local operator here, named after what has been computed  *)
(* when it applies, so that its value is worked out once.                  *)
(***************************************************************************)
EXTENDS Integers, Sequences, FiniteSets, TLC

\* stderr is the diagnostic stream of the process: the lines that dbg! has
\* written, each as the place of the macro and the value it shows.
VARIABLES tol, call, ret, prev, stderr

vars == <<tol, call, ret, prev, stderr>>

----------------------------------------------------------------------------
(* Rational arithmetic standing for f64 arithmetic.                        *)

NaN == <<0, 0>>

IsNaN(a) == a[2] = 0

IAbs(n) == IF n < 0 THEN -n ELSE n

RECURSIVE GCD(_, _)
GCD(a, b) == IF b = 0 THEN a ELSE GCD(b, a % b)

\* n/d in lowest terms with a positive denominator; x/0 is non-finite.
Rat(n, d) ==
    IF d = 0 THEN NaN
    ELSE LET g == GCD(IAbs(n), IAbs(d))
             s == IF d < 0 THEN -1 ELSE 1
         IN  <<s * ((IAbs(n) \div g) * (IF n < 0 THEN -1 ELSE 1)), IAbs(d) \div g>>

RInt(n) == <<n, 1>>

Zero == RInt(0)
One == RInt(1)
Two == RInt(2)
Four == RInt(4)

RNeg(a) == IF IsNaN(a) THEN NaN ELSE <<-a[1], a[2]>>

RAbs(a) == IF IsNaN(a) THEN NaN ELSE <<IAbs(a[1]), a[2]>>

RAdd(a, b) ==
    IF IsNaN(a) \/ IsNaN(b) THEN NaN
    ELSE LET g == GCD(a[2], b[2])
         IN  Rat(a[1] * (b[2] \div g) + b[1] * (a[2] \div g), (a[2] \div g) * b[2])

RSub(a, b) == RAdd(a, RNeg(b))

RMul(a, b) ==
    IF IsNaN(a) \/ IsNaN(b) THEN NaN
    ELSE LET g1 == GCD(IAbs(a[1]), b[2])
             g2 == GCD(IAbs(b[1]), a[2])
         IN  <<(a[1] \div g1) * (b[1] \div g2), (a[2] \div g2) * (b[2] \div g1)>>

RInv(a) ==
    IF IsNaN(a) \/ a[1] = 0 THEN NaN
    ELSE IF a[1] < 0 THEN <<-a[2], -a[1]>> ELSE <<a[2], a[1]>>

RDiv(a, b) == RMul(a, RInv(b))

\* a/b < c/d for a, c >= 0 and b, d > 0, by the continued-fraction expansion
\* (no product is formed, so no intermediate value leaves the integer range).
RECURSIVE FracLess(_, _, _, _)
FracLess(a, b, c, d) ==
    LET qa == a \div b
        qc == c \div d
        ra == a % b
        rc == c % d
    IN  IF qa # qc THEN qa < qc
        ELSE IF rc = 0 THEN FALSE
        ELSE IF ra = 0 THEN TRUE
        ELSE FracLess(d, rc, b, ra)

RLt(a, b) ==
    IF IsNaN(a) \/ IsNaN(b) THEN FALSE
    ELSE IF a[1] < 0 /\ b[1] >= 0 THEN TRUE
    ELSE IF a[1] >= 0 /\ b[1] < 0 THEN FALSE
    ELSE IF a[1] >= 0 THEN FracLess(a[1], a[2], b[1], b[2])
    ELSE FracLess(-b[1], b[2], -a[1], a[2])

RLe(a, b) == ~IsNaN(a) /\ ~IsNaN(b) /\ (a = b \/ RLt(a, b))

RGt(a, b) == RLt(b, a)

\* The resolution of an inexact square root.
SqrtDen == 100

RECURSIVE ISqrtBetween(_, _, _)
ISqrtBetween(n, lo, hi) ==
    IF lo >= hi THEN lo
    ELSE LET mid == (lo + hi + 1) \div 2
         IN  IF mid * mid <= n THEN ISqrtBetween(n, mid, hi)
             ELSE ISqrtBetween(n, lo, mid - 1)

\* The integer part of the square root of n >= 0.
ISqrt(n) == ISqrtBetween(n, 0, IF n < 46340 THEN n ELSE 46340)

IsSquare(n) == ISqrt(n) * ISqrt(n) = n

\* The largest denominator a radicand keeps before it is rounded.
SqrtCap == 100000

\* f64::sqrt: NaN for a negative radicand.
RSqrt(a) ==
    IF IsNaN(a) \/ a[1] < 0 THEN NaN
    ELSE IF IsSquare(a[1]) /\ IsSquare(a[2]) THEN <<ISqrt(a[1]), ISqrt(a[2])>>
    ELSE LET k == a[2] \div SqrtCap + 1
             n == a[1] \div k
             d == a[2] \div k
             scaled == (n \div d) * (SqrtDen * SqrtDen)
                       + ((n % d) * (SqrtDen * SqrtDen)) \div d
         IN  Rat(ISqrt(scaled) + 1, SqrtDen)

----------------------------------------------------------------------------
(* lib.rs: the tolerance defaults, BgcError and Tolerance.                 *)

DEFAULT_TOLERANCE_CALCULATION == <<1, 1000000>>
DEFAULT_TOLERANCE_CONVERGENCE == <<1, 1000000>>
DEFAULT_TOLERANCE_POINT == <<1, 10000>>
DEFAULT_TOLERANCE_VECTOR == <<1, 1000000>>

Tolerance_default ==
    [equal_point |-> DEFAULT_TOLERANCE_POINT,
     equal_vector |-> DEFAULT_TOLERANCE_VECTOR,
     convergence |-> DEFAULT_TOLERANCE_CONVERGENCE,
     calculation |-> DEFAULT_TOLERANCE_CALCULATION]

set_equal_point_le(t, v) ==
    [t EXCEPT !.equal_point = IF RLe(v, Zero) THEN DEFAULT_TOLERANCE_POINT ELSE v]

set_equal_point(t, v) ==
    [t EXCEPT !.equal_point = IF RLt(v, Zero) THEN DEFAULT_TOLERANCE_POINT ELSE v]

set_equal_vector(t, v) ==
    [t EXCEPT !.equal_vector = IF RLt(v, Zero) THEN DEFAULT_TOLERANCE_VECTOR ELSE v]

set_convergnece(t, v) ==
    [t EXCEPT !.convergence = IF RLt(v, Zero) THEN DEFAULT_TOLERANCE_CONVERGENCE ELSE v]

\* set_calculation without the test of the sign.
set_calculation_unchecked(t, v) == [t EXCEPT !.calculation = v]

set_calculation(t, v) ==
    [t EXCEPT !.calculation = IF RLt(v, Zero) THEN DEFAULT_TOLERANCE_CALCULATION ELSE v]

equal_point(t) == t.equal_point
equal_vector(t) == t.equal_vector
convergence(t) == t.convergence
calculation(t) == t.calculation

\* Results: Ok(value) and Err(kind).
Ok(v) == [ok |-> TRUE, val |-> v]
Err(e) == [ok |-> FALSE, err |-> e]
NoCall == [op |-> "none"]
NoRet == [ok |-> FALSE, err |-> "none"]

----------------------------------------------------------------------------
(* math.rs: the quadratic solver.                                          *)

\* The same solver dividing by a instead of 2a.
quadratic_equation_by_a(a, b, c, t) ==
    IF RLe(RAbs(a), calculation(t)) THEN Err("InvalidInput")
    ELSE LET d0 == RSub(RMul(b, b), RMul(RMul(Four, a), c))
             discriminant == IF RLe(RAbs(d0), calculation(t)) THEN Zero ELSE d0
         IN  IF RLt(discriminant, Zero) THEN Err("MustBeNoNegative")
             ELSE Ok(<<RDiv(RAdd(RNeg(b), RSqrt(discriminant)), a),
                       RDiv(RSub(RNeg(b), RSqrt(discriminant)), a)>>)

\* The same solver testing the discriminant before the leading coefficient.
quadratic_equation_disc_first(a, b, c, t) ==
    LET d0 == RSub(RMul(b, b), RMul(RMul(Four, a), c))
        discriminant == IF RLe(RAbs(d0), calculation(t)) THEN Zero ELSE d0
    IN  IF RLt(discriminant, Zero) THEN Err("MustBeNoNegative")
        ELSE IF RLe(RAbs(a), calculation(t)) THEN Err("InvalidInput")
        ELSE Ok(<<RDiv(RAdd(RNeg(b), RSqrt(discriminant)), RMul(Two, a)),
                  RDiv(RSub(RNeg(b), RSqrt(discriminant)), RMul(Two, a))>>)

quadratic_equation(a, b, c, t) ==
    IF RLe(RAbs(a), calculation(t)) THEN Err("InvalidInput")
    ELSE LET d0 == RSub(RMul(b, b), RMul(RMul(Four, a), c))
             discriminant == IF RLe(RAbs(d0), calculation(t)) THEN Zero ELSE d0
         IN  IF RLt(discriminant, Zero) THEN Err("MustBeNoNegative")
             ELSE Ok(<<RDiv(RAdd(RNeg(b), RSqrt(discriminant)), RMul(Two, a)),
                       RDiv(RSub(RNeg(b), RSqrt(discriminant)), RMul(Two, a))>>)

\* What quadratic_equation writes with dbg!: the negative discriminant.
quadratic_equation_dbg(a, b, c, t) ==
    IF RLe(RAbs(a), calculation(t)) THEN <<>>
    ELSE LET Shown(discriminant) ==
                 IF RLt(discriminant, Zero)
                 THEN <<<<"src/math.rs:32", discriminant>>>> ELSE <<>>
             Snapped(d0) == Shown(IF RLe(RAbs(d0), calculation(t)) THEN Zero ELSE d0)
         IN  Snapped(RSub(RMul(b, b), RMul(RMul(Four, a), c)))

\* The coefficients range over the multiples of 1/QuadDen up to QuadMax in
\* absolute value.
QuadDen == 4
QuadMax == 2

QuadCoefficients ==
    {Rat(n, QuadDen) : n \in (-(QuadMax * QuadDen)) .. (QuadMax * QuadDen)}

\* The leading coefficients: zero, the thresholds themselves, and beyond.
QuadLeading == {Rat(n, QuadDen) : n \in {-8, -4, -2, -1, 0, 1, 2, 4, 8}}

\* tol.calculation as the caller set it: the default (a negative argument),
\* zero, and two thresholds that coefficients and discriminants can equal.
QuadCalculations == {Rat(-1, 1), Zero, Rat(1, 4), One}

InitQuad ==
    /\ tol \in {set_calculation(Tolerance_default, v) : v \in QuadCalculations}
    /\ call = NoCall
    /\ ret = NoRet
    /\ prev = NoRet
    /\ stderr = <<>>

QuadraticEquation ==
    \E a \in QuadLeading, b \in QuadCoefficients, c \in QuadCoefficients :
        /\ call = NoCall
        /\ call' = [op |-> "quadratic_equation", a |-> a, b |-> b, c |-> c]
        /\ ret' = quadratic_equation(a, b, c, tol)
        /\ stderr' = stderr \o quadratic_equation_dbg(a, b, c, tol)
        /\ UNCHANGED <<tol, prev>>

NextQuad == QuadraticEquation

SpecQuad == InitQuad /\ [][NextQuad]_vars

\* b*b - 4*a*c of the call in progress.
CallDisc == RSub(RMul(call.b, call.b), RMul(RInt(4), RMul(call.a, call.c)))

IsRatSquare(q) == ~IsNaN(q) /\ q[1] >= 0 /\ IsSquare(q[1]) /\ IsSquare(q[2])

----------------------------------------------------------------------------
(* geo/vector.rs and geo/point.rs: the Vector / Point algebra.             *)

Vector_new(x, y, z) == [x |-> x, y |-> y, z |-> z]
Point_new(x, y, z) == [x |-> x, y |-> y, z |-> z]

Point_origin == Point_new(Zero, Zero, Zero)

\* x*x + y*y + z*z
SumSq(x, y, z) == RAdd(RAdd(RMul(x, x), RMul(y, y)), RMul(z, z))

Vector_length(v) == RSqrt(SumSq(v.x, v.y, v.z))

Vector_sub(a, b) == Vector_new(RSub(a.x, b.x), RSub(a.y, b.y), RSub(a.z, b.z))
Vector_add(a, b) == Vector_new(RAdd(a.x, b.x), RAdd(a.y, b.y), RAdd(a.z, b.z))
Vector_mul(v, m) == Vector_new(RMul(v.x, m), RMul(v.y, m), RMul(v.z, m))

Vector_is_equal_to(a, b, t) ==
    RLt(Vector_length(Vector_new(RSub(a.x, b.x), RSub(a.y, b.y), RSub(a.z, b.z))),
        equal_vector(t))

\* The body of is_parallel_to is the constant false.
Vector_is_parallel_to(a, b, t) == FALSE

Vector_normal(v, t) ==
    LET Scaled(l) ==
            IF RLt(l, equal_vector(t)) THEN Vector_new(v.x, v.y, v.z)
            ELSE Vector_new(RDiv(v.x, l), RDiv(v.y, l), RDiv(v.z, l))
    IN  Scaled(Vector_length(v))

inner_product(a, b) ==
    RAdd(RAdd(RMul(a.x, b.x), RMul(a.y, b.y)), RMul(a.z, b.z))

outer_product(a, b) ==
    Vector_new(RSub(RMul(a.y, b.z), RMul(a.z, b.y)),
               RSub(RMul(a.z, b.x), RMul(a.x, b.z)),
               RSub(RMul(a.x, b.y), RMul(a.y, b.x)))

Point_distance_to(a, b) ==
    LET dx == RSub(a.x, b.x)
        dy == RSub(a.y, b.y)
        dz == RSub(a.z, b.z)
    IN  RSqrt(SumSq(dx, dy, dz))

Point_is_equal_to(a, b, t) == RLt(Point_distance_to(a, b), equal_point(t))

calc_middle_point(a, b) ==
    Point_new(RDiv(RAdd(a.x, b.x), Two), RDiv(RAdd(a.y, b.y), Two),
              RDiv(RAdd(a.z, b.z), Two))

\* Point + Vector -> Point, Point - Point -> Vector
Point_add(p, v) == Point_new(RAdd(p.x, v.x), RAdd(p.y, v.y), RAdd(p.z, v.z))
Point_sub(a, b) == Vector_new(RSub(a.x, b.x), RSub(a.y, b.y), RSub(a.z, b.z))

----------------------------------------------------------------------------
(* geo/matrix3d.rs: a matrix is its four rows; get(row, col) counts from 0. *)

Matrix3d_identity ==
    <<<<One, Zero, Zero, Zero>>, <<Zero, One, Zero, Zero>>,
      <<Zero, Zero, One, Zero>>, <<Zero, Zero, Zero, One>>>>

get(m, row, col) == m[row + 1][col + 1]

to_origin(origin) ==
    <<<<One, Zero, Zero, RNeg(origin.x)>>, <<Zero, One, Zero, RNeg(origin.y)>>,
      <<Zero, Zero, One, RNeg(origin.z)>>, <<Zero, Zero, Zero, One>>>>

rotation_axis(uaxis, vaxis, waxis) ==
    <<<<uaxis.x, uaxis.y, uaxis.z, Zero>>, <<vaxis.x, vaxis.y, vaxis.z, Zero>>,
      <<waxis.x, waxis.y, waxis.z, Zero>>, <<Zero, Zero, Zero, One>>>>

multiply_by(m, rhs) ==
    [i \in 1..4 |->
        [j \in 1..4 |->
            RAdd(RAdd(RAdd(RAdd(Zero, RMul(get(m, i - 1, 0), get(rhs, 0, j - 1))),
                           RMul(get(m, i - 1, 1), get(rhs, 1, j - 1))),
                      RMul(get(m, i - 1, 2), get(rhs, 2, j - 1))),
                 RMul(get(m, i - 1, 3), get(rhs, 3, j - 1)))]]

transform_to_local(origin, uaxis, vaxis, t) ==
    LET waxis == outer_product(uaxis, vaxis)
    IN  multiply_by(rotation_axis(Vector_normal(uaxis, t), Vector_normal(vaxis, t),
                                  Vector_normal(waxis, t)),
                    to_origin(origin))

transform_to_world(origin, uaxis, vaxis, t) ==
    LET Columns(u, v, w) ==
            <<<<u.x, v.x, w.x, origin.x>>, <<u.y, v.y, w.y, origin.y>>,
              <<u.z, v.z, w.z, origin.z>>, <<Zero, Zero, Zero, One>>>>
        waxis == outer_product(uaxis, vaxis)
    IN  Columns(Vector_normal(uaxis, t), Vector_normal(vaxis, t),
                Vector_normal(waxis, t))

\* Point::transform of point.rs: [p] * [M], the translation read from row 3.
Point_transform(p, rhs) ==
    Point_new(
        RAdd(RAdd(RAdd(RMul(p.x, get(rhs, 0, 0)), RMul(p.y, get(rhs, 1, 0))),
                  RMul(p.z, get(rhs, 2, 0))), get(rhs, 3, 0)),
        RAdd(RAdd(RAdd(RMul(p.x, get(rhs, 0, 1)), RMul(p.y, get(rhs, 1, 1))),
                  RMul(p.z, get(rhs, 2, 1))), get(rhs, 3, 1)),
        RAdd(RAdd(RAdd(RMul(p.x, get(rhs, 0, 2)), RMul(p.y, get(rhs, 1, 2))),
                  RMul(p.z, get(rhs, 2, 2))), get(rhs, 3, 2)))

\* Integer coordinates as points and vectors; rational ones over a common
\* denominator.
Pt(x, y, z) == Point_new(RInt(x), RInt(y), RInt(z))
Vec(x, y, z) == Vector_new(RInt(x), RInt(y), RInt(z))
VecOver(x, y, z, d) == Vector_new(Rat(x, d), Rat(y, d), Rat(z, d))

----------------------------------------------------------------------------
(* geo/line.rs                                                             *)

Line_new(start_point, end_point) ==
    [start_point |-> start_point, end_point |-> end_point]

Line_length(l) == Point_distance_to(l.start_point, l.end_point)

\* Normalised with Tolerance::default(), not with the caller's tolerance.
Line_direction(l) ==
    Vector_normal(Point_sub(l.end_point, l.start_point), Tolerance_default)

Line_closest_point(l, p0, extends, t) ==
    LET Clamped(uvec, closest) ==
            IF extends THEN closest
            ELSE LET to_closest == Vector_normal(Point_sub(closest, l.start_point), t)
                 IN  IF Vector_is_equal_to(to_closest, Vector_mul(uvec, RInt(-1)), t)
                     THEN l.start_point
                     ELSE IF RLt(Line_length(l),
                                 Point_distance_to(closest, l.start_point))
                     THEN l.end_point
                     ELSE closest
        AtParam(uvec, tt) ==
            Clamped(uvec, Point_new(RAdd(l.start_point.x, RMul(uvec.x, tt)),
                                    RAdd(l.start_point.y, RMul(uvec.y, tt)),
                                    RAdd(l.start_point.z, RMul(uvec.z, tt))))
        Projected(uvec) ==
            AtParam(uvec, RAdd(RAdd(RMul(RSub(p0.x, l.start_point.x), uvec.x),
                                    RMul(RSub(p0.y, l.start_point.y), uvec.y)),
                               RMul(RSub(p0.z, l.start_point.z), uvec.z)))
    IN  IF Point_is_equal_to(p0, l.start_point, t) THEN l.start_point
        ELSE IF Point_is_equal_to(p0, l.end_point, t) THEN l.end_point
        ELSE Projected(Line_direction(l))

\* is_on that always takes the line as infinite.
Line_is_on_extended(l, p, extends, t) ==
    IF Point_is_equal_to(p, l.start_point, t) \/ Point_is_equal_to(p, l.end_point, t)
    THEN TRUE
    ELSE Point_is_equal_to(Line_closest_point(l, p, TRUE, t), p, t)

Line_is_on(l, p, extends, t) ==
    IF Point_is_equal_to(p, l.start_point, t) \/ Point_is_equal_to(p, l.end_point, t)
    THEN TRUE
    ELSE Point_is_equal_to(Line_closest_point(l, p, extends, t), p, t)

\* is_parallel without the test for the opposite direction.
Line_is_parallel_same_direction(self, l, t) ==
    LET SameSide(closest_start, closest_end) ==
            LET dir_start == Vector_normal(Point_sub(closest_start, self.start_point), t)
                dir_end == Vector_normal(Point_sub(closest_end, self.end_point), t)
                dist_start == Point_distance_to(self.start_point, closest_start)
                dist_end == Point_distance_to(self.end_point, closest_end)
            IN  IF ~Vector_is_equal_to(dir_start, dir_end, t) THEN FALSE
                ELSE /\ RLe(RAbs(RSub(dist_start, dist_end)), equal_point(t))
                     /\ Vector_is_equal_to(Line_direction(self), Line_direction(l), t)
    IN  SameSide(Line_closest_point(l, self.start_point, TRUE, t),
                 Line_closest_point(l, self.end_point, TRUE, t))

Line_is_parallel(self, l, t) ==
    LET Compared(closest_start, closest_end, dir_self, dir_other) ==
            LET dir_start == Vector_normal(Point_sub(closest_start, self.start_point), t)
                dir_end == Vector_normal(Point_sub(closest_end, self.end_point), t)
                dist_start == Point_distance_to(self.start_point, closest_start)
                dist_end == Point_distance_to(self.end_point, closest_end)
            IN  IF ~Vector_is_equal_to(dir_start, dir_end, t) THEN FALSE
                ELSE /\ RLe(RAbs(RSub(dist_start, dist_end)), equal_point(t))
                     /\ \/ Vector_is_equal_to(dir_self, dir_other, t)
                        \/ Vector_is_equal_to(dir_self,
                                              Vector_mul(dir_other, RInt(-1)), t)
    IN  Compared(Line_closest_point(l, self.start_point, TRUE, t),
                 Line_closest_point(l, self.end_point, TRUE, t),
                 Line_direction(self), Line_direction(l))

\* The closest-approach computation without the comparison of the two points.
Line_intersect_first_point(self, other, extends, t) ==
    LET Decided(int_p1, int_p2) ==
            IF \/ ~Line_is_on(self, int_p1, extends, t)
               \/ ~Line_is_on(other, int_p2, extends, t)
            THEN Err("InvalidInput")
            ELSE Ok(<<int_p1>>)
        Solved(dir1, dir2, q, s1, s2) ==
            LET l1 == RDiv(RAdd(RMul(s2, q), s1), RSub(One, RMul(q, q)))
                l2 == RDiv(RAdd(RMul(s1, q), s2), RSub(One, RMul(q, q)))
            IN  Decided(Point_add(self.start_point, Vector_mul(dir1, l1)),
                        Point_add(other.start_point, Vector_mul(dir2, l2)))
        Measured(dir1, dir2, start_to_start) ==
            Solved(dir1, dir2, inner_product(dir1, dir2),
                   inner_product(dir1, start_to_start),
                   RNeg(inner_product(dir2, start_to_start)))
    IN  Measured(Line_direction(self), Line_direction(other),
                 Point_sub(other.start_point, self.start_point))

\* The closest-approach computation of intersect_with_line.
Line_intersect_computed(self, other, extends, t) ==
    LET Decided(int_p1, int_p2) ==
            IF \/ ~Line_is_on(self, int_p1, extends, t)
               \/ ~Line_is_on(other, int_p2, extends, t)
            THEN Err("InvalidInput")
            ELSE IF Point_is_equal_to(int_p1, int_p2, t) THEN Ok(<<int_p1>>)
            ELSE Err("InvalidInput")
        Solved(dir1, dir2, q, s1, s2) ==
            LET l1 == RDiv(RAdd(RMul(s2, q), s1), RSub(One, RMul(q, q)))
                l2 == RDiv(RAdd(RMul(s1, q), s2), RSub(One, RMul(q, q)))
            IN  Decided(Point_add(self.start_point, Vector_mul(dir1, l1)),
                        Point_add(other.start_point, Vector_mul(dir2, l2)))
        Measured(dir1, dir2, start_to_start) ==
            Solved(dir1, dir2, inner_product(dir1, dir2),
                   inner_product(dir1, start_to_start),
                   RNeg(inner_product(dir2, start_to_start)))
    IN  Measured(Line_direction(self), Line_direction(other),
                 Point_sub(other.start_point, self.start_point))

\* intersect_with_line with the parallel test ahead of the endpoint tests.
intersect_with_line_parallel_first(self, other, extends, t) ==
    IF Line_is_parallel(self, other, t) THEN Err("MustBeNonZero")
    ELSE IF \/ Point_is_equal_to(self.start_point, other.start_point, t)
            \/ Point_is_equal_to(self.start_point, other.end_point, t)
    THEN Ok(<<self.start_point>>)
    ELSE IF \/ Point_is_equal_to(self.end_point, other.start_point, t)
            \/ Point_is_equal_to(self.end_point, other.end_point, t)
    THEN Ok(<<self.end_point>>)
    ELSE Line_intersect_computed(self, other, extends, t)

\* Curve for Line::intersect_with_line
intersect_with_line(self, other, extends, t) ==
    IF \/ Point_is_equal_to(self.start_point, other.start_point, t)
       \/ Point_is_equal_to(self.start_point, other.end_point, t)
    THEN Ok(<<self.start_point>>)
    ELSE IF \/ Point_is_equal_to(self.end_point, other.start_point, t)
            \/ Point_is_equal_to(self.end_point, other.end_point, t)
    THEN Ok(<<self.end_point>>)
    ELSE IF Line_is_parallel(self, other, t) THEN Err("MustBeNonZero")
    ELSE Line_intersect_computed(self, other, extends, t)

Line_point_at_dist(l, distance, extends, t) ==
    IF RLt(RAbs(distance), equal_point(t)) THEN Ok(l.start_point)
    ELSE IF RLt(RAbs(RSub(Line_length(l), distance)), equal_point(t))
    THEN Ok(l.end_point)
    ELSE IF ~extends /\ (RLt(distance, Zero) \/ RLt(Line_length(l), distance))
    THEN Err("InvalidInput")
    ELSE Ok(Point_add(l.start_point, Vector_mul(Line_direction(l), distance)))

----------------------------------------------------------------------------
(* geo/plane.rs: Ax + By + Cz + D = 0                                      *)

Plane_of(a, b, c, d) == [param_a |-> a, param_b |-> b, param_c |-> c, param_d |-> d]

Plane_from(point, vec, t) ==
    LET Through(normal_vec) ==
            Plane_of(normal_vec.x, normal_vec.y, normal_vec.z,
                     RNeg(RAdd(RAdd(RMul(normal_vec.x, point.x),
                                    RMul(normal_vec.y, point.y)),
                               RMul(normal_vec.z, point.z))))
    IN  Through(Vector_normal(vec, t))

Plane_distance_to(pl, point) ==
    LET s == RSqrt(SumSq(pl.param_a, pl.param_b, pl.param_c))
    IN  RDiv(RAbs(RAdd(RAdd(RAdd(RMul(point.x, pl.param_a), RMul(point.y, pl.param_b)),
                            RMul(point.z, pl.param_c)), pl.param_d)), s)

Plane_contains(pl, point, t) == RLe(Plane_distance_to(pl, point), equal_point(t))

get_normal_vector(pl, t) ==
    Vector_normal(Vector_new(pl.param_a, pl.param_b, pl.param_c), t)

Plane_is_parallel_to(pl, other, t) ==
    Vector_is_parallel_to(get_normal_vector(pl, t), get_normal_vector(other, t), t)

Plane_is_coplanar_with(pl, other, t) ==
    /\ Plane_is_parallel_to(pl, other, t)
    /\ RLt(RAbs(RSub(pl.param_d, other.param_d)), equal_point(t))

\* The expansion along the first row with the middle term added instead of
\* subtracted.
Det3_plus(a1, b1, c1, a2, b2, c2, a3, b3, c3) ==
    RAdd(RAdd(RMul(a1, RSub(RMul(b2, c3), RMul(b3, c2))),
              RMul(b1, RSub(RMul(a2, c3), RMul(a3, c2)))),
         RMul(c1, RSub(RMul(a2, b3), RMul(a3, b2))))

\* The determinant of the rows (a1 b1 c1), (a2 b2 c2), (a3 b3 c3), expanded
\* along the first row.
Det3(a1, b1, c1, a2, b2, c2, a3, b3, c3) ==
    RAdd(RSub(RMul(a1, RSub(RMul(b2, c3), RMul(b3, c2))),
              RMul(b1, RSub(RMul(a2, c3), RMul(a3, c2)))),
         RMul(c1, RSub(RMul(a2, b3), RMul(a3, b2))))

Plane_intersect_with_plane(pl, other, t) ==
    LET Solved(line_dir, third_plane, det) ==
            IF RLt(RAbs(det), calculation(t)) THEN Err("InvalidInput")
            ELSE LET a1 == pl.param_a
                     b1 == pl.param_b
                     c1 == pl.param_c
                     d1 == RNeg(pl.param_d)
                     a2 == other.param_a
                     b2 == other.param_b
                     c2 == other.param_c
                     d2 == RNeg(other.param_d)
                     a3 == third_plane.param_a
                     b3 == third_plane.param_b
                     c3 == third_plane.param_c
                     d3 == RNeg(third_plane.param_d)
                     Directed_from(intersection_point) ==
                         Ok(Line_new(intersection_point,
                                     Point_add(intersection_point, line_dir)))
                 IN  Directed_from(Point_new(
                         RDiv(Det3(d1, b1, c1, d2, b2, c2, d3, b3, c3), det),
                         RDiv(Det3(a1, d1, c1, a2, d2, c2, a3, d3, c3), det),
                         RDiv(Det3(a1, b1, d1, a2, b2, d2, a3, b3, d3), det)))
        Third(line_dir, third_plane) ==
            Solved(line_dir, third_plane,
                   Det3(pl.param_a, pl.param_b, pl.param_c,
                        other.param_a, other.param_b, other.param_c,
                        third_plane.param_a, third_plane.param_b, third_plane.param_c))
        Directed(line_dir) ==
            IF RLt(Vector_length(line_dir), equal_vector(t)) THEN Err("InvalidInput")
            ELSE Third(line_dir, Plane_from(Point_origin, Vector_normal(line_dir, t), t))
    IN  Directed(outer_product(get_normal_vector(pl, t), get_normal_vector(other, t)))

----------------------------------------------------------------------------
(* geo/line.rs: a line and a plane.                                        *)

Line_is_parallel_with_plane(l, plane, t) ==
    IF Point_is_equal_to(l.start_point, l.end_point, t) THEN FALSE
    ELSE RLt(RAbs(inner_product(get_normal_vector(plane, t), Line_direction(l))),
             t.equal_vector)

\* plane.is_on(point, tol): plane.rs names this test contains.
Plane_is_on(plane, point, t) == Plane_contains(plane, point, t)

Line_intersect_with_plane(l, plane, extends, t) ==
    LET At(ipoint) ==
            IF ~Line_is_on(l, ipoint, extends, t) THEN Err("InvalidInput")
            ELSE Ok(ipoint)
        Snapped(u) ==
            At(Point_add(l.start_point,
                         Vector_mul(Point_sub(l.end_point, l.start_point),
                                    IF RLt(RAbs(u), calculation(t)) THEN Zero ELSE u)))
        Divided(v, denominator) ==
            IF RLt(RAbs(denominator), calculation(t)) THEN Err("MustBeNonZero")
            ELSE Snapped(RDiv(RAdd(RAdd(RAdd(RMul(plane.param_a, l.start_point.x),
                                             RMul(plane.param_b, l.start_point.y)),
                                        RMul(plane.param_c, l.start_point.z)),
                                   plane.param_d),
                              denominator))
        Against(v) ==
            Divided(v, RAdd(RAdd(RMul(plane.param_a, v.x), RMul(plane.param_b, v.y)),
                            RMul(plane.param_c, v.z)))
    IN  IF Plane_is_on(plane, l.start_point, t) THEN Ok(l.start_point)
        ELSE IF Plane_is_on(plane, l.end_point, t) THEN Ok(l.end_point)
        ELSE Against(Point_sub(l.start_point, l.end_point))

\* What Line::intersect_with_plane writes with dbg!: which end is on the
\* plane, or u once the denominator has passed.
Line_intersect_with_plane_dbg(l, plane, extends, t) ==
    LET Shown(u) ==
            <<<<"src/geo/line.rs:182",
                IF RLt(RAbs(u), calculation(t)) THEN Zero ELSE u>>>>
        Divided(denominator) ==
            IF RLt(RAbs(denominator), calculation(t)) THEN <<>>
            ELSE Shown(RDiv(RAdd(RAdd(RAdd(RMul(plane.param_a, l.start_point.x),
                                           RMul(plane.param_b, l.start_point.y)),
                                      RMul(plane.param_c, l.start_point.z)),
                                 plane.param_d),
                            denominator))
    IN  IF Plane_is_on(plane, l.start_point, t)
        THEN <<<<"src/geo/line.rs:159", "start point is on plane.">>>>
        ELSE IF Plane_is_on(plane, l.end_point, t)
        THEN <<<<"src/geo/line.rs:163", "end point is on plane.">>>>
        ELSE Divided(inner_product(Vector_new(plane.param_a, plane.param_b,
                                              plane.param_c),
                                   Point_sub(l.start_point, l.end_point)))

----------------------------------------------------------------------------
(* Methods of Line that arc.rs calls and line.rs does not hold:            *)
(* direction(tol), "unit vector from start to end", normalised with the    *)
(* caller's tolerance; contains, which the description gives as another    *)
(* name of is_on; and transform, the line between the transformed ends.    *)

Line_direction_tol(l, t) == Vector_normal(Point_sub(l.end_point, l.start_point), t)

Line_contains(l, p, extends, t) == Line_is_on(l, p, extends, t)

----------------------------------------------------------------------------
(* The two-argument Point::transform(&Matrix3d, tol) that arc.rs calls.    *)
(* point.rs holds only the one-argument transform above; this one follows  *)
(* the description "applies the full affine map" and the frames built by   *)
(* transform_to_local and transform_to_world: [M] * [p] = [p'], the        *)
(* translation read from column 3.                                         *)

Point_transform_tol(p, rhs, t) ==
    Point_new(
        RAdd(RAdd(RAdd(RMul(get(rhs, 0, 0), p.x), RMul(get(rhs, 0, 1), p.y)),
                  RMul(get(rhs, 0, 2), p.z)), get(rhs, 0, 3)),
        RAdd(RAdd(RAdd(RMul(get(rhs, 1, 0), p.x), RMul(get(rhs, 1, 1), p.y)),
                  RMul(get(rhs, 1, 2), p.z)), get(rhs, 1, 3)),
        RAdd(RAdd(RAdd(RMul(get(rhs, 2, 0), p.x), RMul(get(rhs, 2, 1), p.y)),
                  RMul(get(rhs, 2, 2), p.z)), get(rhs, 2, 3)))

Line_transform(l, rhs, t) ==
    Ok(Line_new(Point_transform_tol(l.start_point, rhs, t),
                Point_transform_tol(l.end_point, rhs, t)))

----------------------------------------------------------------------------
(* geo/arc.rs.  An angle is held as its cosine and sine, so that atan2,    *)
(* cos and sin are exact on points at a rational distance.                 *)

(* An angle of [0, 2 pi) has turn 0; 2 pi itself, the end of a full circle,  *)
(* has the cosine and sine of 0.0 and turn 1.                              *)

Angle(c, s) == [cos |-> c, sin |-> s, turn |-> 0]

\* 0.0
Angle_zero == Angle(One, Zero)

\* std::f64::consts::PI and PI * 2.0
Angle_pi == Angle(RInt(-1), Zero)
Angle_two_pi == [cos |-> One, sin |-> Zero, turn |-> 1]

\* a < b on angles: [0, pi] is ordered by falling cosine, (pi, 2 pi) by
\* rising cosine, and 2 pi is the greatest.
Angle_lt(a, b) ==
    LET Upper(x) == RLe(Zero, x.sin)
    IN  IF a.turn # b.turn THEN a.turn < b.turn
        ELSE IF Upper(a) # Upper(b) THEN Upper(a)
        ELSE IF Upper(a) THEN RGt(a.cos, b.cos)
        ELSE RLt(a.cos, b.cos)

\* (a - b).abs() < eps on angles: equal angles differ by 0; other angles
\* are compared through their cosines and sines, neither of which differs by
\* more than the angles do, unless the angles lie on the two sides of the
\* jump from 2 pi to 0.
Angle_near(a, b, eps) ==
    LET AcrossJump(x, y) ==
            /\ x.turn = 0 /\ RLe(Zero, x.sin) /\ RLt(Zero, x.cos)
            /\ y.turn = 1 \/ (RLt(y.sin, Zero) /\ RLt(Zero, y.cos))
    IN  IF a = b THEN RLt(Zero, eps)
        ELSE IF AcrossJump(a, b) \/ AcrossJump(b, a) THEN FALSE
        ELSE /\ RLt(RAbs(RSub(a.cos, b.cos)), eps)
             /\ RLt(RAbs(RSub(a.sin, b.sin)), eps)

\* f64::atan2(y, x); atan2(0, 0) is 0.
atan2(y, x) ==
    LET Unit(h) == Angle(RDiv(x, h), RDiv(y, h))
    IN  IF x = Zero /\ y = Zero THEN Angle_zero
        ELSE Unit(RSqrt(RAdd(RMul(x, x), RMul(y, y))))

\* atan2 with its arguments exchanged.
calc_angle_swapped(p) == atan2(p.x, p.y)

\* A negative angle is raised by 2 pi, which keeps its cosine and sine.
calc_angle_at_local_point(p) == atan2(p.y, p.x)

calc_point_at_param(arc, param) ==
    Point_add(arc.center_point,
              Vector_mul(Vector_add(Vector_mul(arc.x_axis, param.cos),
                                    Vector_mul(arc.y_axis, param.sin)),
                         arc.radius))

Arc_start_point(arc) == calc_point_at_param(arc, arc.start_angle)

Arc_end_point(arc) == calc_point_at_param(arc, arc.end_angle)

is_param_in_range(arc, param, t) ==
    IF \/ Angle_near(arc.start_angle, param, calculation(t))
       \/ Angle_near(arc.end_angle, param, calculation(t))
    THEN TRUE
    ELSE IF Angle_lt(param, arc.start_angle) \/ Angle_lt(arc.end_angle, param)
    THEN FALSE
    ELSE TRUE

\* The angle at which a point is seen from the center, in the frame of the
\* arc: the angle closest_point computes before it looks at the range.
Arc_angle_of(arc, point, t) ==
    LET Flat(local_point) == Point_new(local_point.x, local_point.y, Zero)
        Radial(local_point) ==
            Line_point_at_dist(Line_new(Point_origin, local_point), arc.radius,
                               TRUE, t).val
    IN  calc_angle_at_local_point(
            Radial(Flat(Point_transform_tol(
                point,
                transform_to_local(arc.center_point, arc.x_axis, arc.y_axis, t), t))))

\* closest_point that leaves the projected point in the frame of the arc.
Arc_closest_point_local(arc, point, extends, t) ==
    LET Snapped(local_point, on_arc) ==
            IF ~extends /\ ~is_param_in_range(arc, calc_angle_at_local_point(on_arc), t)
            THEN LET to_start == Point_distance_to(Arc_start_point(arc), local_point)
                     to_end == Point_distance_to(Arc_end_point(arc), local_point)
                 IN  IF RLt(to_start, to_end) THEN Ok(Arc_start_point(arc))
                     ELSE Ok(Arc_end_point(arc))
            ELSE Ok(on_arc)
        Projected(local_point) ==
            Snapped(local_point,
                    Line_point_at_dist(Line_new(Point_origin, local_point), arc.radius,
                                       TRUE, t).val)
        Flat(local_point) == Projected(Point_new(local_point.x, local_point.y, Zero))
    IN  Flat(Point_transform_tol(
                point,
                transform_to_local(arc.center_point, arc.x_axis, arc.y_axis, t), t))

Arc_closest_point(arc, point, extends, t) ==
    LET Snapped(local_point, on_arc) ==
            IF ~extends /\ ~is_param_in_range(arc, calc_angle_at_local_point(on_arc), t)
            THEN LET to_start == Point_distance_to(Arc_start_point(arc), local_point)
                     to_end == Point_distance_to(Arc_end_point(arc), local_point)
                 IN  IF RLt(to_start, to_end) THEN Ok(Arc_start_point(arc))
                     ELSE Ok(Arc_end_point(arc))
            ELSE Ok(Point_transform_tol(
                        on_arc,
                        transform_to_world(arc.center_point, arc.x_axis, arc.y_axis, t),
                        t))
        Projected(local_point) ==
            Snapped(local_point,
                    Line_point_at_dist(Line_new(Point_origin, local_point), arc.radius,
                                       TRUE, t).val)
        Flat(local_point) == Projected(Point_new(local_point.x, local_point.y, Zero))
    IN  Flat(Point_transform_tol(
                point,
                transform_to_local(arc.center_point, arc.x_axis, arc.y_axis, t), t))

Arc_contains(arc, point, extends, t) ==
    IF \/ Point_is_equal_to(Arc_start_point(arc), point, t)
       \/ Point_is_equal_to(Arc_end_point(arc), point, t)
    THEN TRUE
    ELSE LET Compared(closest) == closest.ok /\ Point_is_equal_to(closest.val, point, t)
         IN  Compared(Arc_closest_point(arc, point, extends, t))

containing_plane(arc, t) ==
    Plane_from(arc.center_point, outer_product(arc.x_axis, arc.y_axis), t)

\* The equation of intersect_with_line_in_local for the distances along a
\* line of the local plane at which it meets the circle:
\* a = dx^2 + dy^2, b = 2 (sx dx + sy dy), c = sx^2 + sy^2 - r^2.
circle_line_roots(radius, start, dir, t) ==
    quadratic_equation(
        RAdd(RMul(dir.x, dir.x), RMul(dir.y, dir.y)),
        RMul(Two, RAdd(RMul(start.x, dir.x), RMul(start.y, dir.y))),
        RSub(RAdd(RMul(start.x, start.x), RMul(start.y, start.y)),
             RMul(radius, radius)),
        t)

\* points.is_empty() ends intersect_with_line_in_local with InvalidInput.
points_or_invalid(points) ==
    IF points = <<>> THEN Err("InvalidInput") ELSE Ok(points)

\* The same with the second root kept although it equals the first.
points_in_range_both(arc, other, p1, p2, extends, t) ==
    points_or_invalid(
        (IF /\ is_param_in_range(arc, calc_angle_at_local_point(p1), t)
            /\ extends \/ Line_contains(other, p1, FALSE, t)
         THEN <<p1>> ELSE <<>>)
        \o (IF /\ is_param_in_range(arc, calc_angle_at_local_point(p2), t)
               /\ extends \/ Line_contains(other, p2, FALSE, t)
            THEN <<p2>> ELSE <<>>))

\* The pushes of intersect_with_line_in_local: p1 if its angle is in the
\* range of the arc and it is on the line, p2 likewise if it is not p1.
points_in_range(arc, other, p1, p2, extends, t) ==
    points_or_invalid(
        (IF /\ is_param_in_range(arc, calc_angle_at_local_point(p1), t)
            /\ extends \/ Line_contains(other, p1, FALSE, t)
         THEN <<p1>> ELSE <<>>)
        \o (IF /\ ~Point_is_equal_to(p1, p2, t)
               /\ is_param_in_range(arc, calc_angle_at_local_point(p2), t)
               /\ extends \/ Line_contains(other, p2, FALSE, t)
            THEN <<p2>> ELSE <<>>))

\* The points at the two roots, which are distances from the start of the
\* line.
points_at_roots(arc, other, roots, extends, t) ==
    IF ~roots.ok THEN Err("InvalidInput")
    ELSE points_in_range(arc, other,
                         Line_point_at_dist(other, roots.val[1], TRUE, t).val,
                         Line_point_at_dist(other, roots.val[2], TRUE, t).val,
                         extends, t)

\* The points of the circle on a line of the local plane.
intersect_with_line_in_local(arc, other, extends, t) ==
    points_at_roots(
        arc, other,
        circle_line_roots(arc.radius, other.start_point,
                          Vector_normal(Line_direction_tol(other, t), t), t),
        extends, t)

\* The centers share their x: the closed form in a = other_center.x.
circles_on_x(a, r1, r2, t) ==
    LET Pair(x, y) ==
            IF RLt(RAbs(y), equal_point(t)) THEN Ok(<<Point_new(x, Zero, Zero)>>)
            ELSE Ok(<<Point_new(x, y, Zero), Point_new(x, RNeg(y), Zero)>>)
        At(x) == Pair(x, RSqrt(RSub(RMul(r1, r1), RMul(x, x))))
    IN  At(RDiv(RSub(RAdd(RMul(a, a), RMul(r1, r1)), RMul(r2, r2)), RMul(Two, a)))

\* The centers share their y: the closed form in b = other_center.y.
circles_on_y(b, r1, r2, t) ==
    LET Pair(x, y) ==
            IF RLt(RAbs(x), equal_point(t)) THEN Ok(<<Point_new(Zero, y, Zero)>>)
            ELSE Ok(<<Point_new(x, y, Zero), Point_new(RNeg(x), y, Zero)>>)
        At(y) == Pair(RSqrt(RSub(RMul(r1, r1), RMul(y, y))), y)
    IN  At(RDiv(RSub(RAdd(RMul(b, b), RMul(r1, r1)), RMul(r2, r2)), RMul(Two, b)))

\* ld, and the coefficients la, lb, lc of the quadratic in x.
circles_ld(a, b, r1, r2) ==
    RSub(RAdd(RAdd(RMul(a, a), RMul(b, b)), RMul(r1, r1)), RMul(r2, r2))

circles_la(a, b) == RAdd(RDiv(RMul(a, a), RMul(b, b)), One)

circles_lb(a, b, ld) == RNeg(RDiv(RMul(a, ld), RMul(b, b)))

circles_lc(b, ld, r1) ==
    RSub(RDiv(RMul(ld, ld), RMul(RMul(Four, b), b)), RMul(r1, r1))

\* The points at the roots of the quadratic, y by back-substitution.
circles_at_roots(a, b, ld, roots, t) ==
    LET Y(x) == RDiv(RAdd(RMul(RMul(RInt(-2), a), x), ld), RMul(Two, b))
    IN  IF ~roots.ok THEN Err("InvalidInput")
        ELSE IF RLt(RAbs(RSub(roots.val[1], roots.val[2])), calculation(t))
        THEN Ok(<<Point_new(roots.val[1], Y(roots.val[1]), Zero)>>)
        ELSE Ok(<<Point_new(roots.val[1], Y(roots.val[1]), Zero),
                  Point_new(roots.val[2], Y(roots.val[2]), Zero)>>)

circles_off_axes(a, b, ld, r1, t) ==
    circles_at_roots(a, b, ld,
                     quadratic_equation(circles_la(a, b), circles_lb(a, b, ld),
                                        circles_lc(b, ld, r1), t),
                     t)

\* The two circles are tangent, apart, or one within the other.
circles_tangent(r1, r2, dist, t) ==
    \/ RLt(RAbs(RSub(RSub(dist, r1), r2)), equal_point(t))
    \/ RLt(RAbs(RSub(r1, RAdd(dist, r2))), equal_point(t))
    \/ RLt(RAbs(RSub(r2, RAdd(dist, r1))), equal_point(t))

circles_apart(r1, r2, dist) == RGt(RSub(RSub(dist, r1), r2), Zero)

circles_nested(r1, r2, dist, t) ==
    /\ RGt(RAbs(RSub(r1, r2)), equal_point(t))
    /\ \/ RGt(r1, r2) /\ RGt(r1, RAdd(r2, dist))
       \/ RGt(r2, r1) /\ RGt(r2, RAdd(r1, dist))

\* The branch by the axis that the two centers share.
circles_crossing(arc, other_center, r1, r2, t) ==
    IF RLt(RAbs(RSub(arc.center_point.x, other_center.x)), equal_point(t))
    THEN circles_on_x(other_center.x, r1, r2, t)
    ELSE IF RLt(RAbs(RSub(arc.center_point.y, other_center.y)), equal_point(t))
    THEN circles_on_y(other_center.y, r1, r2, t)
    ELSE circles_off_axes(other_center.x, other_center.y,
                          circles_ld(other_center.x, other_center.y, r1, r2), r1, t)

\* intersect_with_circle_in_local once dist is known.
circles_by_distance(arc, other_center, r1, r2, dist, t) ==
    IF circles_tangent(r1, r2, dist, t) THEN Err("NotImplemented")
    ELSE IF circles_apart(r1, r2, dist) THEN Err("InvalidInput")
    ELSE IF circles_nested(r1, r2, dist, t) THEN Err("InvalidInput")
    ELSE circles_crossing(arc, other_center, r1, r2, t)

\* The same with the tangency test ahead of the test for one center.
intersect_with_circle_in_local_tangent_first(arc, other_center, other_radius, t) ==
    IF circles_tangent(arc.radius, other_radius,
                       Point_distance_to(arc.center_point, other_center), t)
    THEN Err("NotImplemented")
    ELSE IF Point_is_equal_to(arc.center_point, other_center, t)
    THEN Err("InvalidInput")
    ELSE circles_by_distance(arc, other_center, arc.radius, other_radius,
                             Point_distance_to(arc.center_point, other_center), t)

intersect_with_circle_in_local(arc, other_center, other_radius, t) ==
    IF Point_is_equal_to(arc.center_point, other_center, t)
    THEN Err("InvalidInput")
    ELSE circles_by_distance(arc, other_center, arc.radius, other_radius,
                             Point_distance_to(arc.center_point, other_center), t)

\* What intersect_with_circle_in_local writes: what quadratic_equation
\* writes when the centers share no axis.
intersect_with_circle_in_local_dbg(arc, other_center, other_radius, t) ==
    IF \/ Point_is_equal_to(arc.center_point, other_center, t)
       \/ circles_tangent(arc.radius, other_radius,
                          Point_distance_to(arc.center_point, other_center), t)
       \/ circles_apart(arc.radius, other_radius,
                        Point_distance_to(arc.center_point, other_center))
       \/ circles_nested(arc.radius, other_radius,
                         Point_distance_to(arc.center_point, other_center), t)
       \/ RLt(RAbs(RSub(arc.center_point.x, other_center.x)), equal_point(t))
       \/ RLt(RAbs(RSub(arc.center_point.y, other_center.y)), equal_point(t))
    THEN <<>>
    ELSE quadratic_equation_dbg(
             circles_la(other_center.x, other_center.y),
             circles_lb(other_center.x, other_center.y,
                        circles_ld(other_center.x, other_center.y, arc.radius,
                                   other_radius)),
             circles_lc(other_center.y,
                        circles_ld(other_center.x, other_center.y, arc.radius,
                                   other_radius),
                        arc.radius),
             t)

\* What quadratic_equation writes for the equation of a line of the local
\* plane and the circle.
circle_line_dbg(radius, start, dir, t) ==
    quadratic_equation_dbg(
        RAdd(RMul(dir.x, dir.x), RMul(dir.y, dir.y)),
        RMul(Two, RAdd(RMul(start.x, dir.x), RMul(start.y, dir.y))),
        RSub(RAdd(RMul(start.x, start.x), RMul(start.y, start.y)),
             RMul(radius, radius)),
        t)

\* What intersect_with_line_in_local writes.
intersect_with_line_in_local_dbg(arc, other, t) ==
    circle_line_dbg(arc.radius, other.start_point,
                    Vector_normal(Line_direction_tol(other, t), t), t)

\* Each point of a list taken to the world.
RECURSIVE Points_to_world(_, _, _)
Points_to_world(arc, points, t) ==
    IF points = <<>> THEN <<>>
    ELSE <<Point_transform_tol(
               Head(points),
               transform_to_world(arc.center_point, arc.x_axis, arc.y_axis, t), t)>>
         \o Points_to_world(arc, Tail(points), t)

\* The line in the plane of the arc: the local points, if there are any,
\* are returned in the world.
line_in_plane(arc, local_points, t) ==
    IF ~local_points.ok THEN local_points
    ELSE Ok(Points_to_world(arc, local_points.val, t))

\* The line through the plane of the arc: the one point where it meets the
\* plane is returned if the arc contains it.
line_through_plane(arc, intersections, extends, t) ==
    IF ~intersections.ok THEN intersections
    ELSE IF Arc_contains(arc, intersections.val, extends, t)
    THEN Ok(<<intersections.val>>)
    ELSE Err("InvalidInput")

\* intersect_with_line once local_plane is known.
intersect_with_line_by_plane(arc, other, local_plane, extends, t) ==
    IF Line_is_parallel_with_plane(other, local_plane, t)
    THEN IF Plane_contains(local_plane, other.start_point, t)
         THEN line_in_plane(
                  arc,
                  intersect_with_line_in_local(
                      arc,
                      Line_transform(other,
                          transform_to_local(arc.center_point, arc.x_axis,
                                             arc.y_axis, t), t).val,
                      extends, t),
                  t)
         ELSE Err("InvalidInput")
    ELSE line_through_plane(
             arc, Line_intersect_with_plane(other, local_plane, extends, t),
             extends, t)

\* Curve for Arc::intersect_with_line.  Line::intersect_with_plane gives one
\* point, which is the list the code takes the first element of.
Arc_intersect_with_line(arc, other, extends, t) ==
    intersect_with_line_by_plane(arc, other, containing_plane(arc, t), extends, t)

\* What Arc::intersect_with_line writes: what intersect_with_line_in_local
\* writes for a line of the plane, what Line::intersect_with_plane writes
\* for a line through it.
intersect_with_line_by_plane_dbg(arc, other, local_plane, extends, t) ==
    IF Line_is_parallel_with_plane(other, local_plane, t)
    THEN IF Plane_contains(local_plane, other.start_point, t)
         THEN intersect_with_line_in_local_dbg(
                  arc,
                  Line_transform(other,
                      transform_to_local(arc.center_point, arc.x_axis,
                                         arc.y_axis, t), t).val,
                  t)
         ELSE <<>>
    ELSE Line_intersect_with_plane_dbg(other, local_plane, extends, t)

Arc_intersect_with_line_dbg(arc, other, extends, t) ==
    intersect_with_line_by_plane_dbg(arc, other, containing_plane(arc, t),
                                     extends, t)

\* Curve for Arc::intersect_with_arc: other_plane is computed from self, and
\* the center of the other arc taken to the local frame is not used.
Arc_intersect_with_arc(arc, other, extends, t) ==
    LET Compared(local_plane, other_plane) ==
            IF Plane_is_parallel_to(local_plane, other_plane, t)
            THEN Err("InvalidInput")
            ELSE Err("NotImplemented")
    IN  Compared(containing_plane(arc, t), containing_plane(arc, t))

\* The same with both roots listed although they are one point.
Arc_intersect_with_plane_both(arc, other, extends, t) ==
    LET RECURSIVE Valid(_)
        Valid(points) ==
            IF points = <<>> THEN <<>>
            ELSE (IF Arc_contains(arc, Head(points), FALSE, t) THEN <<Head(points)>>
                  ELSE <<>>) \o Valid(Tail(points))
        Filtered(intersection_points) ==
            IF extends THEN Ok(intersection_points)
            ELSE LET Checked(valid_points) ==
                         IF valid_points = <<>> THEN Err("InvalidInput")
                         ELSE Ok(valid_points)
                 IN  Checked(Valid(intersection_points))
        Listed(p1_local, p2_local) ==
            Filtered(Points_to_world(
                arc,
                <<p1_local, p2_local>>,
                t))
        Rooted(local_line, roots) ==
            IF ~roots.ok THEN Err("InvalidInput")
            ELSE Listed(Line_point_at_dist(local_line, roots.val[1], TRUE, t).val,
                        Line_point_at_dist(local_line, roots.val[2], TRUE, t).val)
        Posed(local_line, start, dir) ==
            Rooted(local_line,
                   quadratic_equation(
                       RAdd(RMul(dir.x, dir.x), RMul(dir.y, dir.y)),
                       RMul(Two, RAdd(RMul(start.x, dir.x), RMul(start.y, dir.y))),
                       RSub(RAdd(RMul(start.x, start.x), RMul(start.y, start.y)),
                            RMul(arc.radius, arc.radius)),
                       t))
        Local(local_line) ==
            Posed(local_line, local_line.start_point,
                  Vector_normal(Line_direction_tol(local_line, t), t))
        Met(intersection_line) ==
            IF ~intersection_line.ok THEN intersection_line
            ELSE Local(Line_transform(
                           intersection_line.val,
                           transform_to_local(arc.center_point, arc.x_axis,
                                              arc.y_axis, t), t).val)
        Classified(local_plane) ==
            IF Plane_is_parallel_to(local_plane, other, t) THEN Err("InvalidInput")
            ELSE Met(Plane_intersect_with_plane(local_plane, other, t))
    IN  Classified(containing_plane(arc, t))

\* Curve for Arc::intersect_with_plane
Arc_intersect_with_plane(arc, other, extends, t) ==
    LET RECURSIVE Valid(_)
        Valid(points) ==
            IF points = <<>> THEN <<>>
            ELSE (IF Arc_contains(arc, Head(points), FALSE, t) THEN <<Head(points)>>
                  ELSE <<>>) \o Valid(Tail(points))
        Filtered(intersection_points) ==
            IF extends THEN Ok(intersection_points)
            ELSE LET Checked(valid_points) ==
                         IF valid_points = <<>> THEN Err("InvalidInput")
                         ELSE Ok(valid_points)
                 IN  Checked(Valid(intersection_points))
        Listed(p1_local, p2_local) ==
            Filtered(Points_to_world(
                arc,
                IF ~Point_is_equal_to(p1_local, p2_local, t)
                THEN <<p1_local, p2_local>> ELSE <<p1_local>>,
                t))
        Rooted(local_line, roots) ==
            IF ~roots.ok THEN Err("InvalidInput")
            ELSE Listed(Line_point_at_dist(local_line, roots.val[1], TRUE, t).val,
                        Line_point_at_dist(local_line, roots.val[2], TRUE, t).val)
        Posed(local_line, start, dir) ==
            Rooted(local_line,
                   quadratic_equation(
                       RAdd(RMul(dir.x, dir.x), RMul(dir.y, dir.y)),
                       RMul(Two, RAdd(RMul(start.x, dir.x), RMul(start.y, dir.y))),
                       RSub(RAdd(RMul(start.x, start.x), RMul(start.y, start.y)),
                            RMul(arc.radius, arc.radius)),
                       t))
        Local(local_line) ==
            Posed(local_line, local_line.start_point,
                  Vector_normal(Line_direction_tol(local_line, t), t))
        Met(intersection_line) ==
            IF ~intersection_line.ok THEN intersection_line
            ELSE Local(Line_transform(
                           intersection_line.val,
                           transform_to_local(arc.center_point, arc.x_axis,
                                              arc.y_axis, t), t).val)
        Classified(local_plane) ==
            IF Plane_is_parallel_to(local_plane, other, t) THEN Err("InvalidInput")
            ELSE Met(Plane_intersect_with_plane(local_plane, other, t))
    IN  Classified(containing_plane(arc, t))

\* What Arc::intersect_with_plane writes: what quadratic_equation writes for
\* the line of the two planes, if they have one.
local_line_dbg(arc, intersection_line, t) ==
    IF ~intersection_line.ok THEN <<>>
    ELSE intersect_with_line_in_local_dbg(
             arc,
             Line_transform(intersection_line.val,
                            transform_to_local(arc.center_point, arc.x_axis,
                                               arc.y_axis, t), t).val,
             t)

Arc_intersect_with_plane_dbg(arc, other, t) ==
    IF Plane_is_parallel_to(containing_plane(arc, t), other, t) THEN <<>>
    ELSE local_line_dbg(
             arc, Plane_intersect_with_plane(containing_plane(arc, t), other, t), t)

\* The arc around a center that the bisectors gave.
Arc_around(center, start_point, end_point, on_arc, t) ==
    LET Framed(radius, x_axis, y_axis) ==
            LET local_end == Point_transform_tol(
                    end_point, transform_to_local(center, x_axis, y_axis, t), t)
            IN  [center_point |-> center, x_axis |-> x_axis, y_axis |-> y_axis,
                 radius |-> radius, start_angle |-> Angle_zero,
                 end_angle |-> calc_angle_at_local_point(local_end)]
        Oriented(x_axis, to_on_arc) ==
            LET ref_vec == outer_product(x_axis, to_on_arc)
            IN  Framed(Point_distance_to(center, on_arc), x_axis,
                       Vector_normal(outer_product(ref_vec, x_axis), t))
    IN  Oriented(Vector_normal(Point_sub(start_point, center), t),
                 Vector_normal(Point_sub(on_arc, center), t))

from_three_points(start_point, end_point, on_arc, t) ==
    LET Centered(to_start, to_end, ip) ==
            IF Vector_is_equal_to(to_start, Vector_mul(to_end, RInt(-1)), t)
            THEN Err("InvalidInput")
            ELSE IF ~ip.ok THEN Err("InvalidInput")
            ELSE Ok(Arc_around(ip.val[1], start_point, end_point, on_arc, t))
        Bisected(to_start, to_end, nrm_vec, mid1, mid2) ==
            LET line1 == Line_new(mid1, Point_add(mid1, outer_product(to_start, nrm_vec)))
                line2 == Line_new(mid2, Point_add(mid2, outer_product(to_end, nrm_vec)))
            IN  Centered(to_start, to_end, intersect_with_line(line1, line2, TRUE, t))
        Aimed(to_start, to_end) ==
            Bisected(to_start, to_end, outer_product(to_start, to_end),
                     calc_middle_point(start_point, on_arc),
                     calc_middle_point(end_point, on_arc))
    IN  Aimed(Vector_normal(Point_sub(start_point, on_arc), t),
              Vector_normal(Point_sub(end_point, on_arc), t))

----------------------------------------------------------------------------
(* The frame round trip: a point is taken to the local frame of an origin  *)
(* and two orthonormal axes, and the result back to the world.             *)

\* Orthonormal axis pairs: the world axes, axes turned in the xy plane, and a
\* frame tilted against all three world axes.
FrameAxes ==
    {<<Vec(1, 0, 0), Vec(0, 1, 0)>>, <<Vec(0, 1, 0), Vec(1, 0, 0)>>,
     <<Vec(0, 0, 1), Vec(1, 0, 0)>>, <<Vec(0, -1, 0), Vec(0, 0, 1)>>,
     <<VecOver(3, 4, 0, 5), VecOver(-4, 3, 0, 5)>>,
     <<VecOver(0, 3, 4, 5), VecOver(0, -4, 3, 5)>>,
     <<VecOver(1, 2, 2, 3), VecOver(2, 1, -2, 3)>>,
     <<VecOver(2, -2, 1, 3), VecOver(1, 2, 2, 3)>>}

FrameMax == 2

FrameCoords == {-1, 0, FrameMax}

FramePoints == {Pt(x, y, z) : x \in FrameCoords, y \in FrameCoords, z \in FrameCoords}

FrameOrigins == {Pt(0, 0, 0), Pt(1, 1, 1), Pt(10, 20, 30), Pt(-1, 0, FrameMax)}

InitFrame ==
    /\ tol = Tolerance_default
    /\ call = NoCall
    /\ ret = NoRet
    /\ prev = NoRet
    /\ stderr = <<>>

ToLocal ==
    \E p \in FramePoints, o \in FrameOrigins, ax \in FrameAxes :
        /\ call = NoCall
        /\ call' = [op |-> "to_local", p |-> p, origin |-> o, u |-> ax[1], v |-> ax[2]]
        /\ ret' = Ok(Point_transform(p, transform_to_local(o, ax[1], ax[2], tol)))
        /\ UNCHANGED <<tol, prev, stderr>>

ToWorld ==
    /\ call.op = "to_local"
    /\ call' = [call EXCEPT !.op = "to_world"]
    /\ prev' = ret
    /\ ret' = Ok(Point_transform(ret.val,
                    transform_to_world(call.origin, call.u, call.v, tol)))
    /\ UNCHANGED <<tol, stderr>>

NextFrame == ToLocal \/ ToWorld

SpecFrame == InitFrame /\ [][NextFrame]_vars

\* C9: to_local followed by to_world yields the point again within
\* tol.equal_point, and to_local takes the origin of the frame to (0,0,0).
C9_FrameRoundTrip ==
    /\ call.op = "to_world" => Point_is_equal_to(ret.val, call.p, tol)
    /\ (call.op = "to_local" /\ call.p = call.origin)
          => Point_is_equal_to(ret.val, Point_origin, tol)

\* The round trip alone, which the code does keep.
C9_RoundTripOnly ==
    call.op = "to_world" => Point_is_equal_to(ret.val, call.p, tol)

----------------------------------------------------------------------------
(* Line-line intersection: self.intersect_with_line(other), and then the   *)
(* same call with the two lines exchanged.                                 *)

Ln(a, b) == Line_new(Pt(a[1], a[2], a[3]), Pt(b[1], b[2], b[3]))

\* Lines of the xy plane that lie 1/NearDen beside grid lines.
NearDen == 4

LnNear(a, b, dx, dy) ==
    Line_new(Point_new(Rat(a[1] * NearDen + dx, NearDen),
                       Rat(a[2] * NearDen + dy, NearDen), Zero),
             Point_new(Rat(b[1] * NearDen + dx, NearDen),
                       Rat(b[2] * NearDen + dy, NearDen), Zero))

\* Each scene is a set of segments of rational length in which every
\* endpoint has a rational distance to every other line, so that each
\* vector the code normalises has an exact length.

\* The xy plane: crossing inside and outside the segments, parallel with an
\* offset, collinear apart and overlapping, reversed, sharing endpoints,
\* and lines a quarter beside others.
PlanarScene ==
    {Ln(<<0, 0, 0>>, <<3, 4, 0>>),    Ln(<<3, 4, 0>>, <<0, 0, 0>>),
     Ln(<<0, 4, 0>>, <<3, 0, 0>>),    Ln(<<0, 0, 0>>, <<4, 0, 0>>),
     Ln(<<6, 4, 0>>, <<3, 8, 0>>),    Ln(<<0, 4, 0>>, <<3, 8, 0>>),
     Ln(<<6, 8, 0>>, <<9, 12, 0>>),   Ln(<<3, 4, 0>>, <<9, 12, 0>>),
     LnNear(<<0, 0, 0>>, <<4, 0, 0>>, 0, 1),
     LnNear(<<4, 0, 0>>, <<0, 0, 0>>, 0, 1),
     LnNear(<<4, -1, 0>>, <<4, 1, 0>>, 1, 0)}

\* Skew lines three apart, closest inside the segments and at their ends.
SkewScene ==
    {Ln(<<1, 4, -3>>, <<1, 4, 7>>),   Ln(<<4, 0, -1>>, <<4, 8, 5>>),
     Ln(<<1, 4, 2>>, <<1, 4, 4>>),    Ln(<<4, 0, -1>>, <<4, 4, 2>>),
     Ln(<<4, 4, 2>>, <<4, 0, -1>>),   Ln(<<4, 8, 5>>, <<4, 0, -1>>)}

\* Lines of one plane that is tilted against all three axes.
TiltedScene ==
    {Ln(<<2, 1, 0>>, <<4, -1, 1>>),   Ln(<<-2, -1, 4>>, <<4, 2, -2>>),
     Ln(<<-2, 4, -1>>, <<4, -2, 2>>), Ln(<<-2, 3, 0>>, <<0, 4, -2>>),
     Ln(<<2, 0, 1>>, <<4, -2, 2>>),   Ln(<<2, -1, 2>>, <<4, 0, 0>>)}

\* Zero-length lines on, beyond and beside a segment.
PointScene ==
    {Ln(<<0, 0, 0>>, <<6, 8, 0>>),    Ln(<<3, 4, 0>>, <<6, 8, 0>>),
     Ln(<<3, 4, 0>>, <<3, 4, 0>>),    Ln(<<0, 0, 0>>, <<0, 0, 0>>),
     Ln(<<6, 0, 0>>, <<6, 0, 0>>)}

Scenes == {PlanarScene, SkewScene, TiltedScene, PointScene}

\* The caller's tolerance: the default, and one with a coarse equal_point.
LineTolerances ==
    {Tolerance_default, set_equal_point(Tolerance_default, Rat(1, 2))}

InitLine ==
    /\ tol \in LineTolerances
    /\ call = NoCall
    /\ ret = NoRet
    /\ prev = NoRet
    /\ stderr = <<>>

IntersectWithLine ==
    \E scene \in Scenes : \E self \in scene, other \in scene, extends \in BOOLEAN :
        /\ call = NoCall
        /\ call' = [op |-> "intersect_with_line", self |-> self, other |-> other,
                    extends |-> extends, swapped |-> FALSE]
        /\ ret' = intersect_with_line(self, other, extends, tol)
        /\ UNCHANGED <<tol, prev, stderr>>

IntersectSwapped ==
    /\ call.op = "intersect_with_line"
    /\ ~call.swapped
    /\ call' = [call EXCEPT !.self = call.other, !.other = call.self, !.swapped = TRUE]
    /\ prev' = ret
    /\ ret' = intersect_with_line(call.other, call.self, call.extends, tol)
    /\ UNCHANGED <<tol, stderr>>

NextLine == IntersectWithLine \/ IntersectSwapped

SpecLine == InitLine /\ [][NextLine]_vars

----------------------------------------------------------------------------
(* The geometry of the two lines of an intersect_with_line call, worked    *)
(* out from the endpoints alone, without square roots or unit vectors.     *)

IsIntersect == call.op = "intersect_with_line"

SqDist(p, q) == SumSq(RSub(p.x, q.x), RSub(p.y, q.y), RSub(p.z, q.z))

\* p and q are closer to one another than tol.equal_point.
Coincide(p, q) ==
    /\ RGt(equal_point(tol), Zero)
    /\ RLt(SqDist(p, q), RMul(equal_point(tol), equal_point(tol)))

StartShared(a, b) ==
    Coincide(a.start_point, b.start_point) \/ Coincide(a.start_point, b.end_point)

EndShared(a, b) ==
    Coincide(a.end_point, b.start_point) \/ Coincide(a.end_point, b.end_point)

EndpointShared(a, b) == StartShared(a, b) \/ EndShared(a, b)

Along(l) == Point_sub(l.end_point, l.start_point)

HasLength(l) == l.start_point # l.end_point

Parallel(a, b) ==
    /\ HasLength(a) /\ HasLength(b)
    /\ outer_product(Along(a), Along(b)) = Vector_new(Zero, Zero, Zero)

Crossing(a, b) == HasLength(a) /\ HasLength(b) /\ ~Parallel(a, b)

Coplanar(a, b) ==
    inner_product(outer_product(Along(a), Along(b)),
                  Point_sub(b.start_point, a.start_point)) = Zero

\* The parameter, 0 at the start and 1 at the end of a, of the point of a's
\* infinite line that is closest to b's infinite line.
ApproachParam(a, b) ==
    LET c == outer_product(Along(a), Along(b))
        w == Point_sub(b.start_point, a.start_point)
    IN  RDiv(inner_product(outer_product(w, Along(b)), c), inner_product(c, c))

ApproachPoint(a, b) ==
    Point_add(a.start_point, Vector_mul(Along(a), ApproachParam(a, b)))

\* The approach point lies on the segment a, its endpoints taken with
\* tol.equal_point.
ApproachInside(a, b) ==
    \/ RLe(Zero, ApproachParam(a, b)) /\ RLe(ApproachParam(a, b), One)
    \/ Coincide(ApproachPoint(a, b), a.start_point)
    \/ Coincide(ApproachPoint(a, b), a.end_point)

\* C1: whenever l1.intersect_with_line(l2) and l2.intersect_with_line(l1)
\* both return Ok, the two points are equal within tol.equal_point.
C1_Symmetric ==
    (IsIntersect /\ call.swapped /\ prev.ok /\ ret.ok)
        => Point_is_equal_to(prev.val[1], ret.val[1], tol)

\* C2: when an endpoint of self coincides with an endpoint of other the
\* result is Ok with exactly that endpoint of self (the start before the
\* end), whatever extends is and whatever the lines are; Err(MustBeNonZero)
\* of the parallel test appears only when no endpoints coincide.
C2_EndpointFirst ==
    IsIntersect =>
        /\ IF StartShared(call.self, call.other)
           THEN ret = Ok(<<call.self.start_point>>)
           ELSE EndShared(call.self, call.other)
                   => ret = Ok(<<call.self.end_point>>)
        /\ ret = Err("MustBeNonZero") => ~EndpointShared(call.self, call.other)

\* Collinear lines that meet end to start: the second endpoint test answers.
C2_Witness ==
    /\ IsIntersect
    /\ Parallel(call.self, call.other)
    /\ ~StartShared(call.self, call.other)
    /\ EndShared(call.self, call.other)
    /\ ret = Ok(<<call.self.end_point>>)

\* C3: parallel lines without a coinciding endpoint give
\* Err(MustBeNonZero) for both values of extends.
C3_ParallelRejected ==
    (IsIntersect /\ Parallel(call.self, call.other)
        /\ ~EndpointShared(call.self, call.other))
        => ret = Err("MustBeNonZero")

\* Lines of opposite direction, side by side.
C3_Witness ==
    /\ IsIntersect
    /\ Parallel(call.self, call.other)
    /\ ~EndpointShared(call.self, call.other)
    /\ outer_product(Along(call.self),
                     Point_sub(call.other.start_point, call.self.start_point))
          # Vector_new(Zero, Zero, Zero)
    /\ RLt(inner_product(Along(call.self), Along(call.other)), Zero)
    /\ ret = Err("MustBeNonZero")

\* C4: for coplanar lines that are not parallel and have no coinciding
\* endpoint, extends = true gives Ok with the crossing point; extends = false
\* gives Ok with it when it lies on both segments and Err(InvalidInput) when
\* it lies off either.
C4_CoplanarCrossing ==
    (IsIntersect /\ Crossing(call.self, call.other)
        /\ Coplanar(call.self, call.other)
        /\ ~EndpointShared(call.self, call.other))
        => IF \/ call.extends
              \/ /\ ApproachInside(call.self, call.other)
                 /\ ApproachInside(call.other, call.self)
           THEN /\ ret.ok
                /\ Len(ret.val) = 1
                /\ Point_is_equal_to(ret.val[1],
                                     ApproachPoint(call.self, call.other), tol)
           ELSE ret = Err("InvalidInput")

\* Oblique lines whose crossing point lies off the segments, extended.
C4_Witness ==
    /\ IsIntersect
    /\ Crossing(call.self, call.other)
    /\ Coplanar(call.self, call.other)
    /\ ~EndpointShared(call.self, call.other)
    /\ inner_product(Along(call.self), Along(call.other)) # Zero
    /\ call.extends
    /\ ~ApproachInside(call.self, call.other)
    /\ ret = Ok(<<ApproachPoint(call.self, call.other)>>)

\* C5: skew lines give Err(InvalidInput) for both values of extends; Ok is
\* returned only when the closest-approach points coincide.
C5_SkewRejected ==
    (IsIntersect /\ Crossing(call.self, call.other)
        /\ ~Coplanar(call.self, call.other)
        /\ ~EndpointShared(call.self, call.other))
        => /\ ret.ok => Coincide(ApproachPoint(call.self, call.other),
                                 ApproachPoint(call.other, call.self))
           /\ ~Coincide(ApproachPoint(call.self, call.other),
                        ApproachPoint(call.other, call.self))
                 => ret = Err("InvalidInput")

\* Skew lines whose closest points lie inside both segments.
C5_Witness ==
    /\ IsIntersect
    /\ Crossing(call.self, call.other)
    /\ ~Coplanar(call.self, call.other)
    /\ ~EndpointShared(call.self, call.other)
    /\ RLt(Zero, ApproachParam(call.self, call.other))
    /\ RLt(ApproachParam(call.self, call.other), One)
    /\ RLt(Zero, ApproachParam(call.other, call.self))
    /\ RLt(ApproachParam(call.other, call.self), One)
    /\ inner_product(Along(call.self), Along(call.other)) # Zero
    /\ ~call.extends
    /\ ret = Err("InvalidInput")

----------------------------------------------------------------------------
(* Arc::from_three_points on points that lie at rational distances from    *)
(* one another, in the xy plane and in a plane tilted against all axes.    *)

\* The points are the center and the corners of a rhombus whose half
\* diagonals are 3 and 4 times ArcScale.
ArcScale == 1

PlanePoints ==
    {<<0, 0>>, <<3 * ArcScale, 0>>, <<-3 * ArcScale, 0>>,
     <<0, 4 * ArcScale>>, <<0, -4 * ArcScale>>}

\* Points of one circle around the origin, every chord between two of them
\* of rational length: three within a third of a turn, and the point
\* opposite the first.
CirclePoints == {<<25, 0>>, <<7, 24>>, <<-7, 24>>, <<-25, 0>>}

\* The circle points are given in fifths: the circle has the radius 5.
OverDen(points, den) == {<<Rat(ab[1], den), Rat(ab[2], den)>> : ab \in points}

PointSets == {OverDen(PlanePoints, 1), OverDen(CirclePoints, 5)}

\* A plane is an origin and two perpendicular directions of equal length.
ArcPlanes ==
    {<<Pt(0, 0, 0), Vec(1, 0, 0), Vec(0, 1, 0)>>,
     <<Pt(1, -1, 2), Vec(1, 2, 2), Vec(2, 1, -2)>>}

InPlane(plane, ab) ==
    Point_add(plane[1], Vector_add(Vector_mul(plane[2], ab[1]),
                                   Vector_mul(plane[3], ab[2])))

InitArc ==
    /\ tol \in LineTolerances
    /\ call = NoCall
    /\ ret = NoRet
    /\ prev = NoRet
    /\ stderr = <<>>

FromThreePoints ==
    \E plane \in ArcPlanes, points \in PointSets :
      \E s \in points, e \in points, m \in points :
        /\ call = NoCall
        /\ call' = [op |-> "from_three_points", start_point |-> InPlane(plane, s),
                    end_point |-> InPlane(plane, e), on_arc |-> InPlane(plane, m)]
        /\ ret' = from_three_points(InPlane(plane, s), InPlane(plane, e),
                                    InPlane(plane, m), tol)
        /\ UNCHANGED <<tol, prev, stderr>>

NextArc == FromThreePoints

SpecArc == InitArc /\ [][NextArc]_vars

\* C10: an arc that from_three_points returns starts at p_start, ends at
\* p_end, and has p_on_arc at the distance radius from its center, each
\* within tol.equal_point.
C10_ArcThroughThreePoints ==
    (call.op = "from_three_points" /\ ret.ok)
        => /\ Point_is_equal_to(Arc_start_point(ret.val), call.start_point, tol)
           /\ Point_is_equal_to(Arc_end_point(ret.val), call.end_point, tol)
           /\ RLt(RAbs(RSub(Point_distance_to(ret.val.center_point, call.on_arc),
                            ret.val.radius)), equal_point(tol))

\* The same three properties for the arcs whose y_axis is a unit vector,
\* which the code does keep.
C10_WithUnitYAxis ==
    (call.op = "from_three_points" /\ ret.ok
        /\ ret.val.y_axis # Vector_new(Zero, Zero, Zero))
        => C10_ArcThroughThreePoints

IsFromThreePoints == call.op = "from_three_points"

\* C11: the arc that from_three_points returns runs through p_on_arc: the
\* angle of p_on_arc in the frame of the arc lies within
\* [start_angle, end_angle], and arc.contains(p_on_arc, false, tol) is true,
\* wherever p_end lies on the circle.
C11_OnArcWithinRange ==
    (IsFromThreePoints /\ ret.ok)
        => /\ is_param_in_range(ret.val, Arc_angle_of(ret.val, call.on_arc, tol), tol)
           /\ Arc_contains(ret.val, call.on_arc, FALSE, tol)

\* The same for the arcs on which p_on_arc is met before p_end, going from
\* p_start round the side that p_on_arc is on.
C11_OnArcBeforeEnd ==
    (IsFromThreePoints /\ ret.ok
        /\ ~Angle_lt(ret.val.end_angle, Arc_angle_of(ret.val, call.on_arc, tol)))
        => Arc_contains(ret.val, call.on_arc, FALSE, tol)

\* v has the length 1 within tol.equal_vector.
UnitLength(v) == RLt(RAbs(RSub(Vector_length(v), One)), equal_vector(tol))

\* C12: every arc that from_three_points returns has x_axis and y_axis of
\* length 1 and orthogonal to each other, radius > 0, start_angle 0.0 and
\* 0 <= end_angle < 2 pi, also when p_start and p_end coincide.
C12_ArcInvariant ==
    (IsFromThreePoints /\ ret.ok)
        => /\ UnitLength(ret.val.x_axis)
           /\ UnitLength(ret.val.y_axis)
           /\ RLt(RAbs(inner_product(ret.val.x_axis, ret.val.y_axis)),
                  equal_vector(tol))
           /\ RGt(ret.val.radius, Zero)
           /\ ret.val.start_angle = Angle_zero
           /\ ret.val.end_angle.turn = 0
           /\ SumSq(ret.val.end_angle.cos, ret.val.end_angle.sin, Zero) = One

\* All of it but the length of y_axis, which the code does keep.
C12_ButYAxis ==
    (IsFromThreePoints /\ ret.ok)
        => /\ UnitLength(ret.val.x_axis)
           /\ inner_product(ret.val.x_axis, ret.val.y_axis) = Zero
           /\ RGt(ret.val.radius, Zero)
           /\ ret.val.start_angle = Angle_zero
           /\ ret.val.end_angle.turn = 0
           /\ SumSq(ret.val.end_angle.cos, ret.val.end_angle.sin, Zero) = One

\* The three points of the call lie on one line (two of them may coincide).
Collinear ==
    outer_product(Point_sub(call.start_point, call.on_arc),
                  Point_sub(call.end_point, call.on_arc)) = Vector_new(Zero, Zero, Zero)

\* C13: from_three_points returns Err(InvalidInput), and neither an arc nor
\* another error, whenever the three points are collinear, p_on_arc between
\* or outside p_start and p_end; and it returns no error but InvalidInput.
C13_CollinearRejected ==
    IsFromThreePoints
        => /\ Collinear => ret = Err("InvalidInput")
           /\ ~ret.ok => ret = Err("InvalidInput")

\* The same for collinear points of which p_start and p_end are distinct,
\* which the code does keep.
C13_DistinctEndsRejected ==
    IsFromThreePoints
        => /\ (Collinear /\ call.start_point # call.end_point)
                 => ret = Err("InvalidInput")
           /\ ~ret.ok => ret = Err("InvalidInput")

----------------------------------------------------------------------------
(* Arcs given by their fields, and the points asked about them:            *)
(* arc.closest_point(p, false, tol), and then arc.contains of the result.  *)

Arc_of(center, x_axis, y_axis, radius, end_angle) ==
    [center_point |-> center, x_axis |-> x_axis, y_axis |-> y_axis,
     radius |-> radius, start_angle |-> Angle_zero, end_angle |-> end_angle]

ArcCenters == {Pt(0, 0, 0), Pt(1, -1, 2)}

\* Orthonormal axes: the world axes, the same exchanged (the plane seen
\* from below), axes turned in the xy plane, and a tilted frame.
ArcAxes ==
    {<<Vec(1, 0, 0), Vec(0, 1, 0)>>, <<Vec(0, 1, 0), Vec(1, 0, 0)>>,
     <<VecOver(3, 4, 0, 5), VecOver(-4, 3, 0, 5)>>,
     <<VecOver(1, 2, 2, 3), VecOver(2, 1, -2, 3)>>}

\* A radius no tolerance reaches, and one below the coarse equal_point.
ArcRadius == 5

ArcRadii == {RInt(ArcRadius), Rat(1, 4)}

\* End angles in each quadrant, at the half turn and at the full turn.
ArcEndAngles ==
    {Angle(Rat(3, 5), Rat(4, 5)), Angle(Zero, One), Angle_pi,
     Angle(Rat(-4, 5), Rat(-3, 5)), Angle(Rat(3, 5), Rat(-4, 5)), Angle_two_pi}

Arcs ==
    {Arc_of(c, ax[1], ax[2], r, a) :
        c \in ArcCenters, ax \in ArcAxes, r \in ArcRadii, a \in ArcEndAngles}

\* Points by their coordinates along x_axis, y_axis and the normal of the
\* arc: at the center, on, inside and outside the circle, in and off the
\* plane, each at a rational distance from the axis of the circle.
ArcLocalPoints ==
    {<<0, 0, 0>>, <<5, 0, 0>>, <<3, 4, 0>>, <<-4, 3, 0>>, <<-3, -4, 0>>,
     <<4, -3, 0>>, <<0, -5, 0>>, <<6, 8, 0>>, <<0, 2, 0>>, <<-8, -6, 1>>,
     <<3, -4, 1>>, <<0, 0, 1>>}

\* The point of the world with the coordinates abc in the frame of the arc.
AtArc(arc, abc) ==
    Point_add(arc.center_point,
              Vector_add(Vector_add(Vector_mul(arc.x_axis, RInt(abc[1])),
                                    Vector_mul(arc.y_axis, RInt(abc[2]))),
                         Vector_mul(outer_product(arc.x_axis, arc.y_axis),
                                    RInt(abc[3]))))

InitArcPoint ==
    /\ tol \in LineTolerances
    /\ call = NoCall
    /\ ret = NoRet
    /\ prev = NoRet
    /\ stderr = <<>>

ClosestPoint ==
    \E arc \in Arcs, abc \in ArcLocalPoints :
        /\ call = NoCall
        /\ call' = [op |-> "closest_point", arc |-> arc, point |-> AtArc(arc, abc),
                    local |-> abc]
        /\ ret' = Arc_closest_point(arc, AtArc(arc, abc), FALSE, tol)
        /\ UNCHANGED <<tol, prev, stderr>>

ContainsClosest ==
    /\ call.op = "closest_point"
    /\ ret.ok
    /\ call' = [call EXCEPT !.op = "contains"]
    /\ prev' = ret
    /\ ret' = Ok(Arc_contains(call.arc, ret.val, FALSE, tol))
    /\ UNCHANGED <<tol, stderr>>

NextArcPoint == ClosestPoint \/ ContainsClosest

SpecArcPoint == InitArcPoint /\ [][NextArcPoint]_vars

C14_WitnessOnRay ==
    /\ call.op = "contains"
    /\ call.local = <<6, 8, 0>>
    /\ call.arc.radius = RInt(ArcRadius)
    /\ prev.val = AtArc(call.arc, <<3, 4, 0>>)
    /\ prev.val \notin {Arc_start_point(call.arc), Arc_end_point(call.arc)}
    /\ ret = Ok(TRUE)

-----------------------------------------------------------------------------
(* Arc::intersect_with_line on arcs of radius 5 and lines given by the     *)
(* coordinates of their ends along x_axis, y_axis and the normal of the    *)
(* arc.                                                                    *)

CutArcs ==
    {Arc_of(c, ax[1], ax[2], RInt(5), a) :
        c \in ArcCenters, ax \in ArcAxes, a \in ArcEndAngles}

\* Lines of the plane of the arc that cross the circle twice, inside the
\* segment or beyond it, touch it, miss it or run through the center; the
\* same above the plane; lines that pierce the plane on, inside and outside
\* the circle; and lines without length.  Every crossing is a point with
\* rational coordinates.
CutLines ==
    {<<<<-10, 3, 0>>, <<10, 3, 0>>>>,   <<<<6, 3, 0>>, <<10, 3, 0>>>>,
     <<<<-10, -3, 0>>, <<10, -3, 0>>>>, <<<<3, -10, 0>>, <<3, 10, 0>>>>,
     <<<<-10, 5, 0>>, <<10, 5, 0>>>>,   <<<<-10, 6, 0>>, <<10, 6, 0>>>>,
     <<<<-6, -8, 0>>, <<6, 8, 0>>>>,    <<<<0, 0, 0>>, <<8, 6, 0>>>>,
     <<<<0, 3, 0>>, <<10, 3, 0>>>>,     <<<<4, 3, 0>>, <<10, 3, 0>>>>,
     <<<<-10, 3, 1>>, <<10, 3, 1>>>>,   <<<<5, 0, -3>>, <<5, 0, 3>>>>,
     <<<<0, 0, -3>>, <<8, 0, 3>>>>,     <<<<3, 4, -2>>, <<3, 4, 2>>>>,
     <<<<3, 4, 1>>, <<3, 4, 3>>>>,      <<<<-4, -3, -1>>, <<-4, -3, 1>>>>,
     <<<<5, 0, 0>>, <<5, 0, 0>>>>,      <<<<5, 0, 3>>, <<5, 0, 3>>>>}

InitArcLine ==
    /\ tol \in LineTolerances
    /\ call = NoCall
    /\ ret = NoRet
    /\ prev = NoRet
    /\ stderr = <<>>

ArcIntersectWithLine ==
    \E arc \in CutArcs, ends \in CutLines, extends \in BOOLEAN :
        /\ call = NoCall
        /\ call' = [op |-> "intersect_with_line", arc |-> arc,
                    other |-> Line_new(AtArc(arc, ends[1]), AtArc(arc, ends[2])),
                    local |-> ends, extends |-> extends]
        /\ ret' = Arc_intersect_with_line(
                      arc, Line_new(AtArc(arc, ends[1]), AtArc(arc, ends[2])),
                      extends, tol)
        /\ stderr' = stderr \o Arc_intersect_with_line_dbg(arc, call'.other,
                                                           extends, tol)
        /\ UNCHANGED <<tol, prev>>

NextArcLine == ArcIntersectWithLine

SpecArcLine == InitArcLine /\ [][NextArcLine]_vars


\* The line lies in the plane of the arc and has a length.
LiesInPlane(ends) == ends[1][3] = 0 /\ ends[2][3] = 0 /\ ends[1] # ends[2]

\* The real roots of |S + u (E - S)|^2 = r^2 for the ends S and E of a line
\* of the plane: the places, as fractions of the way from S to E, where the
\* whole line meets the whole circle.
CircleRoots(ends, radius) ==
    LET S == ends[1]
        D == <<ends[2][1] - ends[1][1], ends[2][2] - ends[1][2]>>
        Solved(a, b, c) ==
            IF a = 0 \/ b * b - 4 * a * c < 0 THEN {}
            ELSE {RDiv(RAdd(RInt(-b), RSqrt(RInt(b * b - 4 * a * c))), RInt(2 * a)),
                  RDiv(RSub(RInt(-b), RSqrt(RInt(b * b - 4 * a * c))), RInt(2 * a))}
    IN  Solved(D[1] * D[1] + D[2] * D[2],
               2 * (S[1] * D[1] + S[2] * D[2]),
               S[1] * S[1] + S[2] * S[2] - radius * radius)

\* The coordinates along x_axis and y_axis of the place u of the line.
RootLocal(ends, u) ==
    <<RAdd(RInt(ends[1][1]), RMul(u, RInt(ends[2][1] - ends[1][1]))),
      RAdd(RInt(ends[1][2]), RMul(u, RInt(ends[2][2] - ends[1][2])))>>

\* The point of the world with the coordinates ab in the plane of the arc.
RootPoint(arc, ab) ==
    Point_add(arc.center_point,
              Vector_add(Vector_mul(arc.x_axis, ab[1]), Vector_mul(arc.y_axis, ab[2])))

\* The root is one of the points returned.
Returned(point) ==
    /\ ret.ok
    /\ \E i \in DOMAIN ret.val : Point_is_equal_to(ret.val[i], point, tol)

\* The angle of the root is within the range of the arc and the root is on
\* the segment.
OnArcAndSegment(arc, ab, u) ==
    /\ is_param_in_range(arc, Angle(RDiv(ab[1], arc.radius), RDiv(ab[2], arc.radius)),
                         tol)
    /\ RLe(Zero, u) /\ RLe(u, One)

\* C15: on a line of the plane of the arc, extends = true returns every
\* point where the whole line meets the whole circle, whatever its angle and
\* its place on the line; extends = false returns such a point exactly when
\* its angle is in [start_angle, end_angle] and it is on the segment.
C15_ExtendsKeepsEveryRoot ==
    call.op = "intersect_with_line" /\ LiesInPlane(call.local) =>
        \A u \in CircleRoots(call.local, 5) :
            IF call.extends
            THEN Returned(RootPoint(call.arc, RootLocal(call.local, u)))
            ELSE Returned(RootPoint(call.arc, RootLocal(call.local, u)))
                 <=> OnArcAndSegment(call.arc, RootLocal(call.local, u), u)

\* Without extends the claim of C15 holds.
C15_WithoutExtends ==
    call.op = "intersect_with_line" /\ ~call.extends => C15_ExtendsKeepsEveryRoot

\* With extends the roots within the range of the arc are returned.
C15_ExtendsWithinRange ==
    call.op = "intersect_with_line" /\ LiesInPlane(call.local) /\ call.extends =>
        \A u \in CircleRoots(call.local, 5) :
            Returned(RootPoint(call.arc, RootLocal(call.local, u)))
            <=> is_param_in_range(
                    call.arc,
                    Angle(RDiv(RootLocal(call.local, u)[1], call.arc.radius),
                          RDiv(RootLocal(call.local, u)[2], call.arc.radius)),
                    tol)


\* The line has a length and keeps one distance, not zero, from the plane of
\* the arc.
BesidePlane(ends) ==
    ends[1] # ends[2] /\ ends[1][3] = ends[2][3] /\ ends[1][3] # 0

\* The points of a list are pairwise distinct within tol.equal_point.
PairwiseDistinct(points) ==
    \A i, j \in DOMAIN points :
        i # j => ~Point_is_equal_to(points[i], points[j], tol)

C16_WitnessMiss ==
    /\ call.op = "intersect_with_line"
    /\ call.local = <<<<-10, 6, 0>>, <<10, 6, 0>>>>
    /\ call.arc.x_axis = VecOver(1, 2, 2, 3)
    /\ ret = Err("InvalidInput")

\* A line without length beside the plane is no case of C16: the failure of
\* Line::intersect_with_plane is passed on.
ZeroLengthBesidePlane ==
    call.op = "intersect_with_line" /\ call.local = <<<<5, 0, 3>>, <<5, 0, 3>>>>
        => ret = Err("MustBeNonZero")

-----------------------------------------------------------------------------
(* Arc::intersect_with_arc on an arc of radius 5 and a second one placed   *)
(* in the frame of the first.                                              *)

\* Where the second arc is: its center by its coordinates in the frame of
\* the first, and whether its plane is the plane of the first turned about
\* x_axis by a quarter turn.  The circles cross twice, lie apart, lie in
\* parallel planes, or lie in planes that cross.
ArcPlaces ==
    {[offset |-> <<6, 0, 0>>, turned |-> FALSE],
     [offset |-> <<0, 8, 0>>, turned |-> FALSE],
     [offset |-> <<20, 0, 0>>, turned |-> FALSE],
     [offset |-> <<6, 0, 3>>, turned |-> FALSE],
     [offset |-> <<6, 0, 0>>, turned |-> TRUE]}

PlacedArc(arc, place, end_angle) ==
    Arc_of(AtArc(arc, place.offset), arc.x_axis,
           IF place.turned THEN outer_product(arc.x_axis, arc.y_axis) ELSE arc.y_axis,
           RInt(5), end_angle)

InitArcArc ==
    /\ tol \in LineTolerances
    /\ call = NoCall
    /\ ret = NoRet
    /\ prev = NoRet
    /\ stderr = <<>>

ArcIntersectWithArc ==
    \E arc \in CutArcs, place \in ArcPlaces, end_angle \in {Angle_pi, Angle_two_pi},
       extends \in BOOLEAN :
        /\ call = NoCall
        /\ call' = [op |-> "intersect_with_arc", arc |-> arc,
                    other |-> PlacedArc(arc, place, end_angle), place |-> place,
                    extends |-> extends]
        /\ ret' = Arc_intersect_with_arc(arc, PlacedArc(arc, place, end_angle),
                                         extends, tol)
        /\ UNCHANGED <<tol, prev, stderr>>

NextArcArc == ArcIntersectWithArc

SpecArcArc == InitArcArc /\ [][NextArcArc]_vars

\* The two points where the circle of radius 5 around the origin of the
\* plane crosses the circle of radius 5 around the point d of the plane:
\* the middle of the centers, and h to either side across the line of the
\* centers, h^2 = 25 - |d|^2 / 4.
CrossingsAt(d) ==
    LET dist == RSqrt(RInt(d[1] * d[1] + d[2] * d[2]))
        h == RSqrt(RSub(RInt(25), Rat(d[1] * d[1] + d[2] * d[2], 4)))
    IN  {<<RAdd(Rat(d[1], 2), RMul(s, RDiv(RMul(h, RInt(-d[2])), dist))),
           RAdd(Rat(d[2], 2), RMul(s, RDiv(RMul(h, RInt(d[1])), dist)))>> :
            s \in {One, RInt(-1)}}

\* The second circle lies in the plane of the first and crosses it twice.
CrossInPlane(place) ==
    /\ ~place.turned
    /\ place.offset[3] = 0
    /\ place.offset[1] * place.offset[1] + place.offset[2] * place.offset[2] < 100

\* C17: for two full circles of one plane that cross, intersect_with_arc
\* returns Ok with the two points of crossing and no other; it returns
\* Err(NotImplemented) only when the planes of the arcs are not parallel.
C17_CoplanarCirclesCross ==
    call.op = "intersect_with_arc" =>
        /\ CrossInPlane(call.place)
               /\ call.arc.end_angle = Angle_two_pi
               /\ call.other.end_angle = Angle_two_pi
           => /\ ret.ok
              /\ Len(ret.val) = 2
              /\ \A ab \in CrossingsAt(call.place.offset) :
                     Returned(RootPoint(call.arc, ab))
        /\ ret = Err("NotImplemented") => call.place.turned

\* Every call is answered by Err(NotImplemented).
AlwaysNotImplemented ==
    call.op = "intersect_with_arc" => ret = Err("NotImplemented")

-----------------------------------------------------------------------------
(* Arc::intersect_with_plane on an arc of radius 5 and a plane given in    *)
(* the frame of the arc by a point and a normal.                           *)

\* Planes square to the plane of the arc that cut the circle twice, touch
\* it, miss it and run through its center; slanted planes; a normal that is
\* not of unit length; a parallel plane and the plane of the arc itself.
\* Every normal has a rational length.
CutPlanes ==
    {[point |-> <<3, 0, 0>>, normal |-> <<1, 0, 0>>],
     [point |-> <<0, 3, 0>>, normal |-> <<0, 1, 0>>],
     [point |-> <<0, -3, 0>>, normal |-> <<0, 1, 0>>],
     [point |-> <<0, -4, 0>>, normal |-> <<0, 2, 0>>],
     [point |-> <<5, 0, 0>>, normal |-> <<1, 0, 0>>],
     [point |-> <<6, 0, 0>>, normal |-> <<1, 0, 0>>],
     [point |-> <<0, 0, 0>>, normal |-> <<4, -3, 0>>],
     [point |-> <<3, 0, 0>>, normal |-> <<4, 0, 3>>],
     [point |-> <<0, 3, 0>>, normal |-> <<0, 3, -4>>],
     [point |-> <<0, 0, 3>>, normal |-> <<0, 0, 1>>],
     [point |-> <<0, 0, 0>>, normal |-> <<0, 0, 1>>]}

\* The vector of the world with the coordinates abc in the frame of the arc.
AlongArc(arc, abc) ==
    Vector_add(Vector_add(Vector_mul(arc.x_axis, RInt(abc[1])),
                          Vector_mul(arc.y_axis, RInt(abc[2]))),
               Vector_mul(outer_product(arc.x_axis, arc.y_axis), RInt(abc[3])))

InitArcPlane ==
    /\ tol \in LineTolerances
    /\ call = NoCall
    /\ ret = NoRet
    /\ prev = NoRet
    /\ stderr = <<>>

ArcIntersectWithPlane ==
    \E arc \in CutArcs, place \in CutPlanes, extends \in BOOLEAN :
        /\ call = NoCall
        /\ call' = [op |-> "intersect_with_plane", arc |-> arc,
                    other |-> Plane_from(AtArc(arc, place.point),
                                         AlongArc(arc, place.normal), tol),
                    place |-> place, extends |-> extends]
        /\ ret' = Arc_intersect_with_plane(
                      arc,
                      Plane_from(AtArc(arc, place.point),
                                 AlongArc(arc, place.normal), tol),
                      extends, tol)
        /\ stderr' = stderr \o Arc_intersect_with_plane_dbg(arc, call'.other, tol)
        /\ UNCHANGED <<tol, prev>>

NextArcPlane == ArcIntersectWithPlane

SpecArcPlane == InitArcPlane /\ [][NextArcPlane]_vars

\* The plane is parallel to the plane of the arc.
ParallelPlace(place) == place.normal[1] = 0 /\ place.normal[2] = 0

\* The points of the circle of radius 5 on the plane, by their coordinates
\* in the plane of the arc: the plane cuts the line a x + b y = k out of it,
\* whose foot from the center is k (a, b) / m, m = a^2 + b^2, and the points
\* lie h to either side of the foot, h^2 = 25 - k^2 / m.
PlaneCrossings(place) ==
    LET Cut(a, b, k, m) ==
            IF 25 * m - k * k < 0 THEN {}
            ELSE {<<RAdd(Rat(k * a, m),
                         RMul(s, RDiv(RMul(RSqrt(Rat(25 * m - k * k, m)), RInt(-b)),
                                      RSqrt(RInt(m))))),
                    RAdd(Rat(k * b, m),
                         RMul(s, RDiv(RMul(RSqrt(Rat(25 * m - k * k, m)), RInt(a)),
                                      RSqrt(RInt(m)))))>> : s \in {One, RInt(-1)}}
    IN  IF ParallelPlace(place) THEN {}
        ELSE Cut(place.normal[1], place.normal[2],
                 place.normal[1] * place.point[1] + place.normal[2] * place.point[2]
                     + place.normal[3] * place.point[3],
                 place.normal[1] * place.normal[1] + place.normal[2] * place.normal[2])

\* The list returned holds exactly the points of the set, each once.
ReturnsExactly(arc, points) ==
    /\ ret.ok
    /\ Len(ret.val) = Cardinality(points)
    /\ \A ab \in points : Returned(RootPoint(arc, ab))

\* C18: Arc::intersect_with_plane answers Err(InvalidInput) for a plane
\* parallel to the plane of the arc and for one that misses the circle;
\* otherwise extends = true returns every point of the full circle on the
\* plane, one or two, and extends = false returns those of them that
\* arc.contains(p, false, tol) accepts, or Err(InvalidInput) if there is none.
C18_PlaneCutsArc ==
    call.op = "intersect_with_plane" =>
        LET Settled(crossings, contained) ==
                IF crossings = {} THEN ret = Err("InvalidInput")
                ELSE IF call.extends
                THEN Cardinality(crossings) \in {1, 2}
                     /\ ReturnsExactly(call.arc, crossings)
                ELSE IF contained = {} THEN ret = Err("InvalidInput")
                ELSE ReturnsExactly(call.arc, contained)
        IN  Settled(PlaneCrossings(call.place),
                    {ab \in PlaneCrossings(call.place) :
                        Arc_contains(call.arc, RootPoint(call.arc, ab), FALSE, tol)})

\* A slanted plane cuts the circle of a tilted arc twice, and the arc holds
\* one of the two points only: without extends that point alone is returned.
C18_Witness ==
    /\ call.op = "intersect_with_plane"
    /\ call.place = [point |-> <<3, 0, 0>>, normal |-> <<4, 0, 3>>]
    /\ call.arc.x_axis = VecOver(1, 2, 2, 3)
    /\ call.arc.end_angle = Angle_pi
    /\ ~call.extends
    /\ ret = Ok(<<RootPoint(call.arc, <<RInt(3), RInt(4)>>)>>)

\* With extends the same plane returns both points, the one beyond the end
\* of the arc included.
C18_WitnessExtends ==
    /\ call.op = "intersect_with_plane"
    /\ call.place = [point |-> <<3, 0, 0>>, normal |-> <<4, 0, 3>>]
    /\ call.arc.end_angle = Angle_pi
    /\ call.extends
    /\ ret.ok
    /\ Len(ret.val) = 2
    /\ Returned(RootPoint(call.arc, <<RInt(3), RInt(-4)>>))

\* A parallel plane is answered by Err(InvalidInput).
C18_WitnessParallel ==
    /\ call.op = "intersect_with_plane"
    /\ call.place = [point |-> <<0, 0, 3>>, normal |-> <<0, 0, 1>>]
    /\ ret = Err("InvalidInput")

-----------------------------------------------------------------------------
(* Vector::is_parallel_to on pairs of vectors of rational length.          *)

ParallelVectors ==
    {Vec(0, 3, 4), Vec(0, 6, 8), Vec(0, -3, -4), Vec(1, 2, 2), Vec(-2, -4, -4),
     Vec(3, 4, 0), Vec(4, 3, 0), Vec(1, 0, 0), Vec(0, 1, 0), Vec(0, 0, 1),
     VecOver(3, 4, 0, 5), Vec(0, 0, 0)}

\* The caller's tolerance: the default, and one with a coarse equal_vector.
VectorTolerances ==
    {Tolerance_default, set_equal_vector(Tolerance_default, Rat(1, 4))}

InitParallel ==
    /\ tol \in VectorTolerances
    /\ call = NoCall
    /\ ret = NoRet
    /\ prev = NoRet
    /\ stderr = <<>>

IsParallelTo ==
    \E a \in ParallelVectors, b \in ParallelVectors :
        /\ call = NoCall
        /\ call' = [op |-> "is_parallel_to", self |-> a, other |-> b]
        /\ ret' = Ok(Vector_is_parallel_to(a, b, tol))
        /\ UNCHANGED <<tol, prev, stderr>>

NextParallel == IsParallelTo

SpecParallel == InitParallel /\ [][NextParallel]_vars

\* |dot(normalize(a), normalize(b))| for two vectors that have a length.
AbsCosine(a, b) ==
    RAbs(RDiv(inner_product(a, b), RMul(Vector_length(a), Vector_length(b))))

\* C19: is_parallel_to is true for two vectors of non-zero length whose
\* normalized dot product is at least 1 - tol.equal_vector in absolute value
\* (every non-zero multiple of a vector among them), false when it is below,
\* and false when either vector has zero length.
C19_ParallelByCosine ==
    call.op = "is_parallel_to" =>
        IF Vector_length(call.self) = Zero \/ Vector_length(call.other) = Zero
        THEN ret = Ok(FALSE)
        ELSE ret = Ok(RLe(RSub(One, equal_vector(tol)),
                          AbsCosine(call.self, call.other)))

\* Every call is answered by false.
NeverParallel == call.op = "is_parallel_to" => ret = Ok(FALSE)

-----------------------------------------------------------------------------
(* Plane::intersect_with_plane on pairs of planes.                         *)

\* Planes built by Plane::from from a point and a normal of rational length:
\* the coordinate planes and planes parallel to them, slanted planes, and two
\* planes at a small angle.
BuiltPlanes ==
    {<<Pt(0, 0, 0), Vec(0, 0, 1)>>,  <<Pt(0, 0, 5), Vec(0, 0, 1)>>,
     <<Pt(0, 0, 0), Vec(1, 0, 0)>>,  <<Pt(3, 0, 0), Vec(1, 0, 0)>>,
     <<Pt(0, -2, 0), Vec(0, 2, 0)>>, <<Pt(1, -1, 2), Vec(0, 3, 4)>>,
     <<Pt(1, -1, 2), Vec(0, 4, 3)>>, <<Pt(3, 0, 0), Vec(1, 2, 2)>>,
     <<Pt(1, 1, 1), Vec(20, 21, 0)>>, <<Pt(1, 1, 1), Vec(21, 20, 0)>>}

\* Planes given by their four parameters, the normal not of unit length:
\* z = 3, the plane z = 0 seen from below, 3x + 4y = 5, and x = 2 with
\* parameters below the coarse tol.calculation.
GivenPlanes ==
    {Plane_of(Zero, Zero, Two, RInt(-6)), Plane_of(Zero, Zero, RInt(-1), Zero),
     Plane_of(RInt(3), RInt(4), Zero, RInt(-5)),
     Plane_of(Rat(1, 4), Zero, Zero, Rat(-1, 2))}

\* The caller's tolerance: the default, one with a coarse equal_vector and
\* one with a coarse calculation.
PlaneTolerances ==
    {Tolerance_default, set_equal_vector(Tolerance_default, Rat(1, 4)),
     set_calculation(Tolerance_default, Rat(1, 2))}

PlanesOf(t) == {Plane_from(pv[1], pv[2], t) : pv \in BuiltPlanes} \cup GivenPlanes

InitPlane ==
    /\ tol \in PlaneTolerances
    /\ call = NoCall
    /\ ret = NoRet
    /\ prev = NoRet
    /\ stderr = <<>>

PlaneIntersectWithPlane ==
    \E self \in PlanesOf(tol), other \in PlanesOf(tol) :
        /\ call = NoCall
        /\ call' = [op |-> "intersect_with_plane", self |-> self, other |-> other]
        /\ ret' = Plane_intersect_with_plane(self, other, tol)
        /\ UNCHANGED <<tol, prev, stderr>>

NextPlane == PlaneIntersectWithPlane

SpecPlane == InitPlane /\ [][NextPlane]_vars

\* The parameters a, b, c of a plane as a vector, and the same divided by
\* its length, the length taken from its square.
RawNormal(pl) == Vector_new(pl.param_a, pl.param_b, pl.param_c)

UnitNormal(pl) ==
    Vector_mul(RawNormal(pl),
               RDiv(One, RSqrt(SumSq(pl.param_a, pl.param_b, pl.param_c))))

\* A length given by its square is below a threshold.
ShorterThan(square, threshold) == RLt(RSqrt(square), threshold)

SqLength(v) == SumSq(v.x, v.y, v.z)

\* The planes count as parallel: the cross product of the unit normals is
\* shorter than tol.equal_vector, or the determinant of the two planes and
\* the plane across their line, which is the length of the cross product
\* of the parameter vectors, is below tol.calculation.
CountAsParallel(pl, other) ==
    \/ ShorterThan(SqLength(outer_product(UnitNormal(pl), UnitNormal(other))),
                   equal_vector(tol))
    \/ ShorterThan(SqLength(outer_product(RawNormal(pl), RawNormal(other))),
                   calculation(tol))

\* The point satisfies the equation of the plane.
OnPlane(pl, p) ==
    RAdd(RAdd(RAdd(RMul(pl.param_a, p.x), RMul(pl.param_b, p.y)),
              RMul(pl.param_c, p.z)), pl.param_d) = Zero

\* C20: Plane::intersect_with_plane answers Err(InvalidInput) exactly when
\* the planes count as parallel; otherwise it answers Ok with a line whose
\* two ends Plane::contains finds on both planes and whose end is its start
\* moved by the cross product of the two normals.
C20_LineOnBothPlanes ==
    call.op = "intersect_with_plane" =>
        IF CountAsParallel(call.self, call.other) THEN ret = Err("InvalidInput")
        ELSE /\ ret.ok
             /\ \A pl \in {call.self, call.other} :
                    \A p \in {ret.val.start_point, ret.val.end_point} :
                        Plane_contains(pl, p, tol) /\ OnPlane(pl, p)
             /\ Point_sub(ret.val.end_point, ret.val.start_point)
                    = outer_product(UnitNormal(call.self), UnitNormal(call.other))

\* Two slanted planes cross in a line that runs along the x axis.
C20_Witness ==
    /\ call.op = "intersect_with_plane"
    /\ call.self = Plane_from(Pt(1, -1, 2), Vec(0, 3, 4), tol)
    /\ call.other = Plane_from(Pt(1, -1, 2), Vec(0, 4, 3), tol)
    /\ ret.ok
    /\ ret.val.start_point = Pt(0, -1, 2)
    /\ Point_sub(ret.val.end_point, ret.val.start_point) = VecOver(-7, 0, 0, 25)

\* Two parallel planes are answered by Err(InvalidInput).
C20_WitnessParallel ==
    /\ call.op = "intersect_with_plane"
    /\ call.self = Plane_from(Pt(0, 0, 0), Vec(0, 0, 1), tol)
    /\ call.other = Plane_of(Zero, Zero, Two, RInt(-6))
    /\ ret = Err("InvalidInput")

\* Two planes square to each other are answered by Err(InvalidInput) when
\* the parameters of one are small enough for the determinant.
C20_WitnessSmallDeterminant ==
    /\ call.op = "intersect_with_plane"
    /\ tol = set_calculation(Tolerance_default, Rat(1, 2))
    /\ call.self = Plane_from(Pt(0, 0, 0), Vec(0, 0, 1), tol)
    /\ call.other = Plane_of(Rat(1, 4), Zero, Zero, Rat(-1, 2))
    /\ ret = Err("InvalidInput")

----------------------------------------------------------------------------
(* Operations of one line: closest_point is called once with a point that  *)
(* lies at a fraction of the line from its start and a step beside it.     *)
(* The fraction -1/800 gives a projection just before the start.           *)

ProbeLines ==
    {Ln(<<0, 0, 0>>, <<4, 0, 0>>), Ln(<<0, 0, 0>>, <<3, 4, 0>>),
     Ln(<<1, 1, 1>>, <<3, 2, 3>>)}

\* A vector across the line, of the length of the line.
Across(l) ==
    IF l = Ln(<<0, 0, 0>>, <<4, 0, 0>>) THEN Vec(0, 4, 0)
    ELSE IF l = Ln(<<0, 0, 0>>, <<3, 4, 0>>) THEN Vec(4, -3, 0)
    ELSE Vec(1, 2, -2)

ProbeDen == 800

ProbeFractions ==
    {Rat(-ProbeDen \div 2, ProbeDen), Rat(-1, ProbeDen), Zero,
     Rat(ProbeDen \div 4, ProbeDen), One, Rat(ProbeDen + ProbeDen \div 4, ProbeDen)}

ProbeSteps == {Zero, One}

\* The point at the fraction s of the line and the step b across it.
Probe(l, s, b) ==
    Point_add(Point_add(l.start_point,
                        Vector_mul(Point_sub(l.end_point, l.start_point), s)),
              Vector_mul(Across(l), b))

\* The caller's tolerance: the default, and one with equal_vector 1/100.
ProbeTolerances ==
    {Tolerance_default, set_equal_vector(Tolerance_default, Rat(1, 100))}

InitLinePoint ==
    /\ tol \in ProbeTolerances
    /\ call = NoCall
    /\ ret = NoRet
    /\ prev = NoRet
    /\ stderr = <<>>

LineClosestPoint ==
    \E l \in ProbeLines, s \in ProbeFractions, b \in ProbeSteps, extends \in BOOLEAN :
        /\ call = NoCall
        /\ call' = [op |-> "closest_point", l |-> l, p0 |-> Probe(l, s, b),
                    extends |-> extends]
        /\ ret' = Ok(Line_closest_point(l, Probe(l, s, b), extends, tol))
        /\ UNCHANGED <<tol, prev, stderr>>

\* Lines and planes for intersect_with_plane: the plane x = 4 cuts the
\* first line in its middle, x = 8 and x = 0 beyond its ends, z = 5 lies
\* beside it; the last line is 2000 long and starts 1/1000 before the plane
\* x = 1/1000.
PierceLines ==
    {Ln(<<2, 2, 0>>, <<6, 2, 0>>), Ln(<<6, 2, 0>>, <<2, 2, 0>>),
     Ln(<<0, 0, 0>>, <<3, 4, 0>>), Ln(<<1, 1, 1>>, <<3, 2, 3>>),
     Ln(<<2, 2, 0>>, <<2, 2, 0>>), Ln(<<0, 0, 0>>, <<2000, 0, 0>>)}

PiercePlanes ==
    {Plane_of(One, Zero, Zero, RInt(-4)), Plane_of(One, Zero, Zero, RInt(-8)),
     Plane_of(One, Zero, Zero, Zero), Plane_of(Zero, Zero, One, RInt(-5)),
     Plane_of(Two, Zero, Zero, RInt(-5)),
     Plane_of(Rat(1, 3), Rat(2, 3), Rat(2, 3), RInt(-3)),
     Plane_of(One, Zero, Zero, Rat(-1, 1000))}

LineIntersectWithPlane ==
    \E l \in PierceLines, plane \in PiercePlanes, extends \in BOOLEAN :
        /\ call = NoCall
        /\ call' = [op |-> "line_intersect_with_plane", l |-> l, plane |-> plane,
                    extends |-> extends]
        /\ ret' = Line_intersect_with_plane(l, plane, extends, tol)
        /\ stderr' = stderr \o Line_intersect_with_plane_dbg(l, plane, extends, tol)
        /\ UNCHANGED <<tol, prev>>

\* A line of the length 1/200, which is below the equal_vector of the
\* second tolerance and above the default one.
ShortLines ==
    {Line_new(Pt(0, 0, 0), Point_new(Rat(3, 1000), Rat(4, 1000), Zero)),
     Line_new(Pt(1, 1, 1), Point_new(One, One, Rat(201, 200)))}

LineDirection ==
    \E l \in ProbeLines \cup ShortLines \cup PierceLines :
        /\ call = NoCall
        /\ call' = [op |-> "direction", l |-> l]
        /\ ret' = Ok(Line_direction(l))
        /\ UNCHANGED <<tol, prev, stderr>>

NextLinePoint == LineClosestPoint \/ LineIntersectWithPlane \/ LineDirection

SpecLinePoint == InitLinePoint /\ [][NextLinePoint]_vars

\* The fraction of the line, 0 at its start and 1 at its end, at which p
\* projects on it, and the projection.
Fraction(l, p) ==
    RDiv(inner_product(Point_sub(p, l.start_point), Along(l)),
         inner_product(Along(l), Along(l)))

Foot(l, p) == Point_add(l.start_point, Vector_mul(Along(l), Fraction(l, p)))

\* The point of the segment that is closest to p.
Clamp(l, p) ==
    IF RLt(Fraction(l, p), Zero) THEN l.start_point
    ELSE IF RGt(Fraction(l, p), One) THEN l.end_point
    ELSE Foot(l, p)

IsClosest == call.op = "closest_point"

\* C21: closest_point with extends = false returns the projection of p when
\* it falls on the segment, start_point when it falls before the start and
\* end_point when it falls beyond the end; with extends = true it returns
\* the projection on the infinite line.  Points are compared with
\* tol.equal_point.
C21_ClosestOnSegment ==
    IsClosest =>
        Coincide(ret.val, IF call.extends THEN Foot(call.l, call.p0)
                          ELSE Clamp(call.l, call.p0))

\* What the code keeps: the infinite line for every tolerance, and the
\* segment under the default tolerance.
C21_OnInfiniteLine ==
    (IsClosest /\ call.extends) => Coincide(ret.val, Foot(call.l, call.p0))

C21_UnderDefault ==
    (IsClosest /\ tol = Tolerance_default) =>
        Coincide(ret.val, IF call.extends THEN Foot(call.l, call.p0)
                          ELSE Clamp(call.l, call.p0))


----------------------------------------------------------------------------
(* A line and a plane, from the values of the plane's equation at the two  *)
(* ends of the line.                                                       *)

PlaneValue(pl, p) ==
    RAdd(RAdd(RAdd(RMul(pl.param_a, p.x), RMul(pl.param_b, p.y)),
              RMul(pl.param_c, p.z)), pl.param_d)

\* n.(start - end)
NormalAlong(l, pl) ==
    RSub(PlaneValue(pl, l.start_point), PlaneValue(pl, l.end_point))

\* The fraction of the line at which it crosses the plane, and the crossing.
CrossFraction(l, pl) == RDiv(PlaneValue(pl, l.start_point), NormalAlong(l, pl))

CrossPoint(l, pl) ==
    Point_add(l.start_point, Vector_mul(Along(l), CrossFraction(l, pl)))

IsPierce ==
    /\ call.op = "line_intersect_with_plane"
    /\ ~Plane_contains(call.plane, call.l.start_point, tol)
    /\ ~Plane_contains(call.plane, call.l.end_point, tol)

CountsAsParallel == RLt(RAbs(NormalAlong(call.l, call.plane)), calculation(tol))

CrossesOutside ==
    \/ RLt(CrossFraction(call.l, call.plane), Zero)
    \/ RGt(CrossFraction(call.l, call.plane), One)

\* C22: for a line with no end on the plane, intersect_with_plane returns
\* Err(MustBeNonZero) when |n.(start - end)| < tol.calculation; otherwise
\* Err(InvalidInput) when extends is false and the crossing lies outside
\* the segment; otherwise Ok(p) with p on the plane within tol.equal_point
\* and on the line.
C22_PierceContract ==
    IsPierce =>
        IF CountsAsParallel THEN ret = Err("MustBeNonZero")
        ELSE IF ~call.extends /\ CrossesOutside THEN ret = Err("InvalidInput")
        ELSE /\ ret.ok
             /\ Plane_contains(call.plane, ret.val, tol)
             /\ Coincide(ret.val, Foot(call.l, ret.val))

\* What the code keeps: the two errors are returned as stated, and a point
\* that is returned lies on the line; it is the crossing unless its
\* fraction of the line is below tol.calculation, and then it is the start.
C22_ErrorsAndLine ==
    IsPierce =>
        IF CountsAsParallel THEN ret = Err("MustBeNonZero")
        ELSE IF ~call.extends /\ CrossesOutside THEN ret = Err("InvalidInput")
        ELSE /\ ret.ok
             /\ Coincide(ret.val, Foot(call.l, ret.val))
             /\ IF RLt(RAbs(CrossFraction(call.l, call.plane)), calculation(tol))
                THEN ret.val = call.l.start_point
                ELSE ret.val = CrossPoint(call.l, call.plane)

----------------------------------------------------------------------------
(* closest_point of an arc for a point that is seen outside the range of   *)
(* the arc.                                                                *)

SeenOutside ==
    /\ call.op = "closest_point"
    /\ ~is_param_in_range(call.arc, Arc_angle_of(call.arc, call.point, tol), tol)

\* e is an end of the arc, and no end is nearer to p.  Both ends lie in the
\* plane of the arc, so the nearer end is the same for p and for its
\* projection on the plane.
NearerEnd(arc, p, e) ==
    /\ e \in {Arc_start_point(arc), Arc_end_point(arc)}
    /\ RLe(SqDist(e, p), SqDist(Arc_start_point(arc), p))
    /\ RLe(SqDist(e, p), SqDist(Arc_end_point(arc), p))

\* The frame of the arc is the frame of the world.
InWorldFrame(arc) ==
    /\ arc.center_point = Pt(0, 0, 0)
    /\ arc.x_axis = Vec(1, 0, 0)
    /\ arc.y_axis = Vec(0, 1, 0)

\* C25: closest_point(p, false, tol) for a point seen outside the range
\* returns the end of the arc that is nearer to p, wherever the arc is
\* placed.
C25_NearerEndpoint ==
    SeenOutside => (ret.ok /\ NearerEnd(call.arc, call.point, ret.val))

\* What the code keeps: an end of the arc is returned, and it is the nearer
\* one when the frame of the arc is the frame of the world.
C25_SomeEndpoint ==
    SeenOutside =>
        /\ ret.ok
        /\ ret.val \in {Arc_start_point(call.arc), Arc_end_point(call.arc)}
        /\ InWorldFrame(call.arc) => NearerEnd(call.arc, call.point, ret.val)

----------------------------------------------------------------------------
(* The tolerance that a Line operation normalises with.                    *)

\* C24: no routine puts a built-in default tolerance in the place of the
\* caller's: the direction of a line is its vector from start to end
\* normalised with the equal_vector of the caller's tolerance.
C24_CallerTolerance ==
    call.op = "direction" => ret.val = Vector_normal(Along(call.l), tol)

\* What the code keeps: the vector is normalised with the equal_vector of
\* Tolerance::default(), whatever the caller's tolerance.
C24_DefaultTolerance ==
    call.op = "direction" =>
        ret.val = Vector_normal(Along(call.l), Tolerance_default)

----------------------------------------------------------------------------
(* The effects of a fallible operation: its Result and what it has written *)
(* to the diagnostic stream.                                               *)

\* enum BgcError
ErrorKinds ==
    {"InvalidInput", "OutOfRange", "MustBePositive", "MustBeNoNegative",
     "MustBeNonZero", "Deivergence", "Empty", "NotImplemented"}

ReturnsResult == call # NoCall => (ret.ok \/ ret.err \in ErrorKinds)

\* C23: the only effect of a fallible operation is its Result: it returns
\* Ok or one of the error kinds and writes nothing to a diagnostic stream.
C23_OnlyTheResult ==
    /\ ReturnsResult
    /\ stderr = <<>>

\* What the code keeps: every call returns a Result, and quadratic_equation
\* writes exactly when it returns MustBeNoNegative.
C23_WritesOnNegative ==
    /\ ReturnsResult
    /\ call.op = "quadratic_equation" =>
           (stderr # <<>> <=> ret = Err("MustBeNoNegative"))

\* Line::intersect_with_plane writes on every path but MustBeNonZero.
C23_WritesUnlessParallel ==
    call.op = "line_intersect_with_plane" =>
        (stderr = <<>> <=> ret = Err("MustBeNonZero"))

----------------------------------------------------------------------------
(* Two circles of one plane: arc.intersect_with_circle_in_local.            *)

\* The radii of the two circles.
CircleRadii == {RInt(3), RInt(5), RInt(10)}

\* Full circles at the origin of the world, in the frame of the world.
CircleArcs ==
    {Arc_of(Pt(0, 0, 0), Vec(1, 0, 0), Vec(0, 1, 0), r, Angle_two_pi) :
        r \in CircleRadii}

\* Centers of the other circle: the center of the arc and one closer to it
\* than equal_point, centers on the x axis, on the y axis, and off both.
CircleCenters ==
    {Pt(0, 0, 0), [x |-> Rat(1, 20000), y |-> Zero, z |-> Zero],
     Pt(2, 0, 0), Pt(6, 0, 0), Pt(10, 0, 0),
     [x |-> Rat(41, 4), y |-> Zero, z |-> Zero], Pt(11, 0, 0),
     Pt(0, 4, 0), Pt(0, 8, 0), Pt(0, 10, 0),
     Pt(8, 4, 0), Pt(7, 7, 0), Pt(7, 1, 0), Pt(6, 8, 0), Pt(20, 15, 0),
     [x |-> Rat(16, 5), y |-> Rat(12, 5), z |-> Zero]}

\* Off the axes, the radii for which two crossing circles meet at points
\* of rational coordinates: <<r1, other_center, r2>>.
RationalCrossings ==
    {<<RInt(5), Pt(8, 4, 0), RInt(5)>>, <<RInt(10), Pt(8, 4, 0), RInt(10)>>,
     <<RInt(5), Pt(7, 7, 0), RInt(5)>>, <<RInt(5), Pt(7, 1, 0), RInt(5)>>,
     <<RInt(3), [x |-> Rat(16, 5), y |-> Rat(12, 5), z |-> Zero], RInt(5)>>,
     <<RInt(5), [x |-> Rat(16, 5), y |-> Rat(12, 5), z |-> Zero], RInt(3)>>}

\* d is between |r1 - r2| and r1 + r2, d2 being its square.
Between(r1, d2, r2) ==
    /\ RLt(RMul(RSub(r1, r2), RSub(r1, r2)), d2)
    /\ RLt(d2, RMul(RAdd(r1, r2), RAdd(r1, r2)))

\* The calls: every center on an axis with every pair of radii, and the
\* centers off the axes with the radii of circles that do not cross or
\* that cross at rational points.
CircleCalls ==
    {q \in CircleArcs \X CircleCenters \X CircleRadii :
        \/ q[2].x = Zero
        \/ q[2].y = Zero
        \/ ~Between(q[1].radius, SqDist(q[1].center_point, q[2]), q[3])
        \/ <<q[1].radius, q[2], q[3]>> \in RationalCrossings}

InitCircles ==
    /\ tol \in LineTolerances
    /\ call = NoCall
    /\ ret = NoRet
    /\ prev = NoRet
    /\ stderr = <<>>

IntersectWithCircleInLocal ==
    \E <<arc, other_center, other_radius>> \in CircleCalls :
        /\ call = NoCall
        /\ call' = [op |-> "intersect_with_circle_in_local", arc |-> arc,
                    other_center |-> other_center,
                    other_radius |-> other_radius]
        /\ ret' = intersect_with_circle_in_local(arc, other_center,
                                                 other_radius, tol)
        /\ stderr' = stderr \o intersect_with_circle_in_local_dbg(
                                   arc, other_center, other_radius, tol)
        /\ UNCHANGED <<tol, prev>>

NextCircles == IntersectWithCircleInLocal

SpecCircles == InitCircles /\ [][NextCircles]_vars

\* The call is one of intersect_with_circle_in_local.
OfCircles == call.op = "intersect_with_circle_in_local"

\* The distance d of the two centers.
CenterDistance == Point_distance_to(call.arc.center_point, call.other_center)

\* d is s within tol.equal_point.
CentersAt(s) == RLt(RAbs(RSub(CenterDistance, s)), equal_point(tol))

SameCenter == RLt(CenterDistance, equal_point(tol))

\* |d - (r1 + r2)|, |r1 - (d + r2)| or |r2 - (d + r1)| is below equal_point.
Tangent ==
    \/ CentersAt(RAdd(call.arc.radius, call.other_radius))
    \/ CentersAt(RSub(call.arc.radius, call.other_radius))
    \/ CentersAt(RSub(call.other_radius, call.arc.radius))

CenterSq == SqDist(call.arc.center_point, call.other_center)

SameNumber(a, b) == ~RLt(a, b) /\ ~RLt(b, a)

\* The distance of the two centers is r1 + r2.
ExternallyTangent ==
    SameNumber(CenterSq, RMul(RAdd(call.arc.radius, call.other_radius),
                              RAdd(call.arc.radius, call.other_radius)))

\* The point of the segment of the two centers at r1 from the first.
TangencyPoint ==
    Point_add(call.arc.center_point,
              Vector_mul(Point_sub(call.other_center, call.arc.center_point),
                           RDiv(call.arc.radius,
                                RAdd(call.arc.radius, call.other_radius))))

\* C27: for two circles tangent from outside, the distance of the centers
\* being r1 + r2, the call returns Ok with one point, the point of tangency.
C27_TangentPoint ==
    OfCircles /\ ExternallyTangent =>
        /\ ret.ok
        /\ Len(ret.val) = 1
        /\ Coincide(ret.val[1], TangencyPoint)

\* For two circles tangent from outside the call returns NotImplemented.
C27_TangentNotImplemented ==
    OfCircles /\ ExternallyTangent => ret = Err("NotImplemented")

\* |r1 - r2| < |c2| < r1 + r2, and no tangency within equal_point.
ProperlyCrossing ==
    /\ Between(call.arc.radius, CenterSq, call.other_radius)
    /\ ~Tangent

Finite(p) == ~IsNaN(p.x) /\ ~IsNaN(p.y) /\ ~IsNaN(p.z)

\* p is at r1 from the center of the arc and at r2 from the other center.
OnBoth(p) ==
    /\ SameNumber(SqDist(p, call.arc.center_point),
                  RMul(call.arc.radius, call.arc.radius))
    /\ SameNumber(SqDist(p, call.other_center),
                  RMul(call.other_radius, call.other_radius))

\* The two centers share their x or their y within equal_point.
OnAxis ==
    \/ RLt(RAbs(RSub(call.arc.center_point.x, call.other_center.x)),
           equal_point(tol))
    \/ RLt(RAbs(RSub(call.arc.center_point.y, call.other_center.y)),
           equal_point(tol))

\* C28: for two properly crossing circles the call returns Ok with two
\* points of finite coordinates, each on both circles, whether the other
\* center is on the x axis, on the y axis or off both.
C28_TwoPointsOnBoth ==
    OfCircles /\ ProperlyCrossing =>
        /\ ret.ok
        /\ Len(ret.val) = 2
        /\ \A i \in 1..2 : Finite(ret.val[i]) /\ OnBoth(ret.val[i])

\* The same for a center off both axes; for a center on an axis the call
\* returns Ok with two points whose x and y are not finite.
C28_OffAxesOnly ==
    OfCircles /\ ProperlyCrossing =>
        /\ ret.ok
        /\ Len(ret.val) = 2
        /\ \A i \in 1..2 :
            IF OnAxis THEN IsNaN(ret.val[i].x) /\ IsNaN(ret.val[i].y)
            ELSE Finite(ret.val[i]) /\ OnBoth(ret.val[i])


----------------------------------------------------------------------------
(* arc.contains(p, extends, tol) for the points asked about the arcs.       *)

ArcContains ==
    \E arc \in Arcs, abc \in ArcLocalPoints, extends \in BOOLEAN :
        /\ call = NoCall
        /\ call' = [op |-> "arc_contains", arc |-> arc,
                    point |-> AtArc(arc, abc), local |-> abc,
                    extends |-> extends]
        /\ ret' = Ok(Arc_contains(arc, AtArc(arc, abc), extends, tol))
        /\ UNCHANGED <<tol, prev, stderr>>

NextArcContains == ArcContains

SpecArcContains == InitArcPoint /\ [][NextArcContains]_vars

\* The distance of the point of the call to the center of the arc is the
\* radius within equal_point.
OnCircle ==
    RLt(RAbs(RSub(Point_distance_to(call.point, call.arc.center_point),
                  call.arc.radius)),
        equal_point(tol))

\* The point of the call is closer than equal_point to the plane of the arc.
InArcPlane ==
    RLt(RAbs(inner_product(Point_sub(call.point, call.arc.center_point),
                           outer_product(call.arc.x_axis, call.arc.y_axis))),
        equal_point(tol))

AtCenter == call.point = call.arc.center_point

\* C30: contains returns true only for a point whose distance to
\* center_point is the radius within equal_point and which is in the plane
\* of the arc; contains(center_point) is false when radius > equal_point.
C30_OnlyOnCircle ==
    call.op = "arc_contains" =>
        /\ ret.val => OnCircle /\ InArcPlane
        /\ AtCenter /\ RGt(call.arc.radius, equal_point(tol)) => ~ret.val

\* contains is true of center_point, and of no other point off the circle
\* or off the plane.
C30_TrueAtCenter ==
    call.op = "arc_contains" =>
        /\ ret.val /\ ~AtCenter => OnCircle /\ InArcPlane
        /\ AtCenter => ret.val


----------------------------------------------------------------------------
(* The Tolerance state machine: a Tolerance::default() on which the four   *)
(* setters are called in any order with any argument.                      *)

\* The arguments the setters are called with: negative, zero, positive.
SetterArgs == {Rat(-1, 1), Rat(-1, 10), Zero, Rat(1, 10), RInt(1000000)}

Init ==
    /\ tol = Tolerance_default
    /\ call = NoCall
    /\ ret = NoRet
    /\ prev = NoRet
    /\ stderr = <<>>

SetEqualPoint ==
    \E v \in SetterArgs :
        /\ tol' = set_equal_point(tol, v)
        /\ call' = [op |-> "set_equal_point", arg |-> v]
        /\ UNCHANGED <<ret, prev, stderr>>

SetEqualVector ==
    \E v \in SetterArgs :
        /\ tol' = set_equal_vector(tol, v)
        /\ call' = [op |-> "set_equal_vector", arg |-> v]
        /\ UNCHANGED <<ret, prev, stderr>>

SetConvergence ==
    \E v \in SetterArgs :
        /\ tol' = set_convergnece(tol, v)
        /\ call' = [op |-> "set_convergnece", arg |-> v]
        /\ UNCHANGED <<ret, prev, stderr>>

SetCalculation ==
    \E v \in SetterArgs :
        /\ tol' = set_calculation(tol, v)
        /\ call' = [op |-> "set_calculation", arg |-> v]
        /\ UNCHANGED <<ret, prev, stderr>>

Next == SetEqualPoint \/ SetEqualVector \/ SetConvergence \/ SetCalculation

Spec == Init /\ [][Next]_vars

\* What a setter called with v must leave in its field.
Stored(v, default) == IF v[1] < 0 THEN default ELSE v

\* C6: after each of the four setters, called with v, its field holds the
\* compiled default when v < 0 and holds v itself when v >= 0, so the matching
\* accessor returns v.
C6_SetterStoresOrResets ==
    /\ call.op = "set_equal_point"
          => equal_point(tol) = Stored(call.arg, DEFAULT_TOLERANCE_POINT)
    /\ call.op = "set_equal_vector"
          => equal_vector(tol) = Stored(call.arg, DEFAULT_TOLERANCE_VECTOR)
    /\ call.op = "set_convergnece"
          => convergence(tol) = Stored(call.arg, DEFAULT_TOLERANCE_CONVERGENCE)
    /\ call.op = "set_calculation"
          => calculation(tol) = Stored(call.arg, DEFAULT_TOLERANCE_CALCULATION)

\* A setter was called with 0 on a field that held another value, and 0 is
\* what the field holds now; and a negative argument has reset a field.
C6_Witness ==
    /\ call.op = "set_equal_point"
    /\ call.arg = Zero
    /\ tol.equal_point = Zero
    /\ tol.calculation = DEFAULT_TOLERANCE_CALCULATION
    /\ tol.equal_vector = RInt(1000000)

\* The four thresholds are zero or above.
NoneNegative ==
    /\ RLe(Zero, equal_point(tol))
    /\ RLe(Zero, equal_vector(tol))
    /\ RLe(Zero, convergence(tol))
    /\ RLe(Zero, calculation(tol))

\* A call of a setter leaves the three fields of the other setters as
\* they were.
OwnFieldOnly ==
    /\ call'.op # "set_equal_point" => tol'.equal_point = tol.equal_point
    /\ call'.op # "set_equal_vector" => tol'.equal_vector = tol.equal_vector
    /\ call'.op # "set_convergnece" => tol'.convergence = tol.convergence
    /\ call'.op # "set_calculation" => tol'.calculation = tol.calculation

\* C29: from Tolerance::default(), after any sequence of calls of the four
\* setters with positive, zero or negative arguments in any order, the four
\* thresholds are >= 0, and each call changes no field but its own.
C29_NonNegativeOwnField == []NoneNegative /\ [][OwnFieldOnly]_vars

\* Each setter has been called, two of them with a negative argument, and
\* the last call has reset its field while the other three kept theirs.
C29_Witness ==
    /\ call.op = "set_calculation"
    /\ call.arg = Rat(-1, 10)
    /\ tol.calculation = DEFAULT_TOLERANCE_CALCULATION
    /\ tol.equal_point = Rat(1, 10)
    /\ tol.equal_vector = DEFAULT_TOLERANCE_VECTOR
    /\ tol.convergence = Zero

====
